---- MODULE Spec2Model ----
(***************************************************************************)
(* Model of the wake-word detector (src/src/wake_word.py) and of the       *)
(* speech playback part of VoiceController (src/src/ui.py).                *)
(*                                                                         *)
(* Texts are sequences of Unicode code points.  Times are in tenths of a   *)
(* second (the X10 suffix of the time constants).  Samples are records     *)
(* [id, amp]: id is the position of the sample in the microphone stream.   *)
(***************************************************************************)
EXTENDS Integers, Sequences, FiniteSets, TLC

\* ------------------------------------------------------------------------
\* Configuration tables of wake_word.py
\* ------------------------------------------------------------------------

\* WAKE_WORD_CONFIG["confidence_threshold"] = 60.0
ConfidenceThreshold == 60
\* WAKE_WORD_CONFIG["cooldown_seconds"] = 2.0, in tenths of a second
CooldownSecondsX10 == 20
\* WAKE_WORD_CONFIG["max_detection_history"] = 10
MaxDetectionHistory == 10
\* REALTIME_CONFIG["buffer_seconds"] = 1.5, in tenths of a second
BufferSecondsX10 == 15
\* REALTIME_CONFIG["overlap_seconds"] = 0.3, in tenths of a second
OverlapSecondsX10 == 3
\* REALTIME_CONFIG["processing_interval"] = 0.3, in tenths of a second
ProcessingIntervalX10 == 3
\* the silence gate of _process_audio_for_wake_word: volume < 100
VolumeFloor == 100

\* WAKE_WORD_CONFIG["wake_word"] = "シリウスくん"
WakeWord == <<12471, 12522, 12454, 12473, 12367, 12435>>

\* the list wake_word_variants of _check_wake_word, in the order of the source
WakeWordVariants ==
    << <<12471, 12522, 12454, 12473, 12367, 12435>>,
       <<12471, 12522, 12454, 12473>>,
       <<12375, 12426, 12358, 12377, 12367, 12435>>,
       <<12375, 12426, 12358, 12377>>,
       <<12471, 12522, 12454, 12473, 32, 12367, 12435>>,
       <<12375, 12426, 12358, 12377, 32, 12367, 12435>>,
       <<12471, 12522, 12454, 12473, 12373, 12435>>,
       <<12375, 12426, 12358, 12377, 12373, 12435>>,
       <<12397, 12360, 65292, 12471, 12522, 12454, 12473, 12367, 12435>>,
       <<12397, 12360, 12471, 12522, 12454, 12473, 12367, 12435>>,
       <<12397, 12360, 12289, 12471, 12522, 12454, 12473, 12367, 12435>>,
       <<12397, 12360, 32, 12471, 12522, 12454, 12473, 12367, 12435>>,
       <<12362, 12356, 12289, 12471, 12522, 12454, 12473, 12367, 12435>>,
       <<12362, 12356, 12471, 12522, 12454, 12473, 12367, 12435>>,
       <<12385, 12423, 12387, 12392, 12289, 12471, 12522, 12454, 12473, 12367, 12435>>,
       <<12385, 12423, 12387, 12392, 12471, 12522, 12454, 12473, 12367, 12435>> >>

\* the two root tokens of the last test: "シリウス" and "しりうす"
RootKatakana == <<12471, 12522, 12454, 12473>>
RootHiragana == <<12375, 12426, 12358, 12377>>

\* RealtimeRecognizer.silence_threshold, in tenths of a second
SilenceThresholdX10 == 20
\* RealtimeRecognizer.voice_threshold
VoiceThreshold == 100
\* the floor of the artifact size in _process_recording
MinArtifactBytes == 1000
\* AUDIO_CONFIG["chunk"]: samples of a read
AudioChunk == 1024
\* the sample width of paInt16 (the fallback of setsampwidth)
SampleWidth == 2
\* the header the wave module writes before the frames
WavHeaderBytes == 44

\* ------------------------------------------------------------------------
\* Bounds of the model
\* ------------------------------------------------------------------------

\* number of tokens a checked text is built from
MaxTokens == 2
\* REALTIME_CONFIG["rate"] (16000 samples per second), scaled down
Rate == 4
\* REALTIME_CONFIG["chunk"] (1024 samples per frame), scaled down
Chunk == 6
\* frames the microphone delivers in a run
MaxFrames == 2
\* length of the data of a short read of the recognizer's stream
ShortReadBytes == 456
\* detections accepted in a run of the history update
MaxDetections == 12
\* utterances spoken in a run
MaxUtterances == 2
\* utterances whose requests to the display are followed
MaxWalks == 1
\* events of a mouth shape sequence
MaxEvents == 2
\* calls of start_detection and stop_detection that find the detector in the
\* other state (calls that return at once are not limited)
MaxCalls == 3
\* moras and pause moras of a prosody structure
MaxMoras == 3
\* signals that may wait in the event queue of the application, and _delayed_start
\* threads that may wait
MaxPending == 2

\* time.time() when the detector is constructed: far past every interval
Epoch == 5 * CooldownSecondsX10
\* the time the microphone takes to fill one frame, in tenths of a second: the
\* stream is the clock of a session, a read returns when a frame is full
FrameDurationX10 == (Chunk * 10) \div Rate
\* sample values of a frame: a silent and a voiced frame
Amplitudes == {0, 200}
\* start_detection spawns one capture and one detection worker per session
MaxSessions == (MaxCalls + 1) \div 2
Sessions == 1..MaxSessions

\* int(REALTIME_CONFIG["buffer_seconds"] * REALTIME_CONFIG["rate"])
ProcessSamples == (BufferSecondsX10 * Rate) \div 10
\* int(REALTIME_CONFIG["overlap_seconds"] * REALTIME_CONFIG["rate"])
OverlapSamples == (OverlapSecondsX10 * Rate) \div 10

\* ------------------------------------------------------------------------
\* String functions of Python, on sequences of code points
\* ------------------------------------------------------------------------

\* the code points c with chr(c).isspace()
WhitespaceChars ==
    {9, 10, 11, 12, 13, 28, 29, 30, 31, 32, 133, 160, 5760, 8232, 8233,
     8239, 8287, 12288} \cup (8192..8202)

\* `sub in s` for str: sub occurs in s as a contiguous run
Contains(sub, s) ==
    \E i \in 0..(Len(s) - Len(sub)) : SubSeq(s, i + 1, i + Len(sub)) = sub

\* str.strip(): drops leading and trailing whitespace
RECURSIVE LStrip(_)
LStrip(s) ==
    IF s # <<>> /\ Head(s) \in WhitespaceChars THEN LStrip(Tail(s)) ELSE s

RECURSIVE RStrip(_)
RStrip(s) ==
    IF s # <<>> /\ s[Len(s)] \in WhitespaceChars
    THEN RStrip(SubSeq(s, 1, Len(s) - 1))
    ELSE s

Strip(s) == RStrip(LStrip(s))

\* str.lower() on one code point: ASCII and full-width Latin capitals have a
\* lower-case form 32 code points up; kana, kanji, punctuation have none
LowerChar(c) ==
    IF (c >= 65 /\ c <= 90) \/ (c >= 65313 /\ c <= 65338) THEN c + 32 ELSE c

Lower(s) == [i \in 1..Len(s) |-> LowerChar(s[i])]

\* any(ord(char) > 127 for char in text)
HasNonAscii(text) == \E i \in 1..Len(text) : text[i] > 127

\* ------------------------------------------------------------------------
\* numpy slicing and WakeWordDetector._calculate_volume
\* ------------------------------------------------------------------------

\* a[:k] for k >= 0
FirstSamples(a, k) == SubSeq(a, 1, IF k < Len(a) THEN k ELSE Len(a))

\* a[-k:] for k >= 0: the last k elements, all of a when k = 0 or k >= len(a)
LastSamples(a, k) ==
    IF k = 0 \/ k >= Len(a) THEN a ELSE SubSeq(a, Len(a) - k + 1, Len(a))

RECURSIVE SumSquares(_)
SumSquares(a) ==
    IF a = <<>> THEN 0 ELSE Head(a).amp * Head(a).amp + SumSquares(Tail(a))

VolumeGateOpen(audio_chunk) == FALSE
\* volume < 100 with volume = 0 for an empty chunk, else sqrt(mean(x**2))
VolumeBelowFloor(audio_chunk) ==
    IF Len(audio_chunk) = 0 THEN 0 < VolumeFloor
    ELSE SumSquares(audio_chunk) < VolumeFloor * VolumeFloor * Len(audio_chunk)

VARIABLES
    now,            \* time.time(), in tenths of a second
    is_running,     \* WakeWordDetector.is_running
    model_loaded,   \* WakeWordDetector.model is not None
    audio,          \* WakeWordDetector.audio: 0 for None, else the session that opened it
    stream,         \* WakeWordDetector.stream: 0 for None, else the session that opened it
    open_streams,   \* the input streams that are open
    audio_buffer,   \* WakeWordDetector.audio_buffer
    buffer_lock,    \* holder of WakeWordDetector.buffer_lock, or NoThread
    last_processed_time,
    last_detection_time,
    detection_history,
    session,        \* number of sessions started so far
    stopped,        \* sessions whose stop_detection has returned
    ui_pc,          \* position of the thread that calls start/stop_detection
    ui_last,        \* the last call of start/stop_detection
    rw,             \* the capture workers, by session
    dw,             \* the detection workers, by session
    frames_read,    \* frames delivered by the microphone so far
    appended,       \* every sample appended to audio_buffer, in append order
    callbacks,      \* the invocations of wake_word_callback so far
    is_speaking,    \* VoiceController.is_speaking
    audio_process,  \* VoiceController.audio_process: 0 for None, else the utterance it plays
    speech_thread,  \* VoiceController.speech_thread: 0 for None, else the utterance it speaks
    audio_command,  \* VoiceController.audio_command is not None
    synthesizer_ready, \* VoiceController.synthesizer.synthesizer is not None
    utterances,     \* number of speech workers started so far
    sw,             \* the speech workers (_speak_async), by utterance
    at,             \* position of the playback threads (_play_audio_with_process)
    start_event,    \* audio_start_event of each utterance is set
    proc,           \* state of the playback process of each utterance
    temp_file,      \* the temporary wav file of each utterance exists
    signals,        \* the speech_started and speech_completed emissions of each utterance
    mouth_log,      \* the mouth pattern updates issued by each utterance
    voice_last,     \* the last call of speak_response or cancel_speech: its result, and
                    \* whether the walk was in progress and the updates issued until then
    remote_pattern, \* the mouth pattern the remote display shows
    delivered,      \* by utterance, the updates of mouth_log whose request succeeded
    failed,         \* by utterance, the updates of mouth_log whose request raised
    is_recording,   \* RealtimeRecognizer.is_recording
    rec_stream,     \* RealtimeRecognizer.stream: 0 for None, else the session that opened it
    frames,         \* RealtimeRecognizer.frames: the data of the reads, as length and amplitude
    last_voice_time, \* RealtimeRecognizer.last_voice_time
    rec_now,        \* time.time() of the recognizer, in tenths of a second
    rec_session,    \* number of recording sessions started so far
    rec_pc,         \* position of the thread that calls start/stop_recognition
    rec_reads,      \* frames the microphone has delivered to the recognizer
    artifact,       \* the temporary WAV file of _process_recording
    rrw,            \* position of the capture workers of the recognizer, by session
    rsm,            \* position of the silence monitors, by session
    silence_calls,  \* the invocations of silence_callback so far
    rec_last,       \* what the last call of _process_recording has done
    rrw_held,       \* by capture worker: the stream it reads and the data it has read
    session_start,  \* time.time() at the call of start_recognition that started the session
    accepted,       \* the detections appended to detection_history since it was cleared
    hw,             \* position of each worker in the history update of an accepted detection
    debug_mode,     \* WakeWordDetector.debug_mode
    cw_text,        \* argument text of a direct call of _check_wake_word
    cw_conf,        \* argument confidence of that call
    cw_pc,          \* "call" before that call, "returned" after it
    cw_result,      \* the value the call returned (FALSE before it returns)
    audio_query,    \* argument of a call of _get_mouth_shape_sequence: its accent_phrases
    speed_scale,    \* argument speed_scale of that call
    seq_pc,         \* "call" before that call, "returned" after it
    phoneme_timeline, \* the list the call returned (empty before it returns)
    is_detecting,   \* WakeWordController.is_detecting
    is_recognizing, \* VoiceController.is_recognizing
    ui_events,      \* the signals queued for the main thread of the application
    delayed_starts  \* number of _delayed_start threads that wait for is_speaking to clear

\* ------------------------------------------------------------------------
\* WakeWordDetector._check_wake_word
\* ------------------------------------------------------------------------

\* confidence < self.confidence_threshold
BelowThresholdOrEqual(confidence) == confidence <= ConfidenceThreshold
ThresholdIgnored(confidence) == FALSE
BelowThreshold(confidence) == confidence < ConfidenceThreshold

\* for variant in wake_word_variants: if variant in text_lower
MatchesVariant(text_lower) ==
    \E k \in 1..Len(WakeWordVariants) : Contains(WakeWordVariants[k], text_lower)

CheckWakeWordDebugAcceptsAll(text, confidence) ==
    IF debug_mode THEN TRUE
    ELSE IF BelowThreshold(confidence) THEN FALSE
    ELSE IF Len(Strip(text)) < 1 THEN FALSE
    ELSE IF ~HasNonAscii(text) THEN FALSE
    ELSE IF Contains(WakeWord, text) THEN TRUE
    ELSE IF MatchesVariant(Lower(text)) THEN TRUE
    ELSE IF Contains(RootKatakana, text) \/ Contains(RootHiragana, text) THEN TRUE
    ELSE FALSE

CheckWakeWord(text, confidence) ==
    IF ~debug_mode /\ BelowThreshold(confidence) THEN FALSE
    ELSE IF Len(Strip(text)) < 1 THEN FALSE
    ELSE IF ~HasNonAscii(text) THEN FALSE
    ELSE IF Contains(WakeWord, text) THEN TRUE
    ELSE IF MatchesVariant(Lower(text)) THEN TRUE
    ELSE IF Contains(RootKatakana, text) \/ Contains(RootHiragana, text) THEN TRUE
    ELSE FALSE

cwVars == <<debug_mode, cw_text, cw_conf, cw_pc, cw_result>>
wakeVars ==
    <<now, is_running, model_loaded, audio, stream, open_streams, audio_buffer,
      buffer_lock, last_processed_time, last_detection_time, detection_history,
      session, stopped, ui_pc, ui_last, rw, dw, frames_read, appended, callbacks>>
voiceVars ==
    <<is_speaking, audio_process, speech_thread, audio_command, synthesizer_ready,
      utterances, sw, at, start_event, proc, temp_file, signals, mouth_log,
      voice_last, remote_pattern, delivered, failed>>
remoteVars == <<remote_pattern, delivered, failed>>
histVars == <<accepted, hw>>
recVars ==
    <<is_recording, rec_stream, frames, last_voice_time, rec_now, rec_session,
      rec_pc, rec_reads, artifact, rrw, rsm, silence_calls, rec_last,
      rrw_held, session_start>>
seqVars == <<audio_query, speed_scale, seq_pc, phoneme_timeline>>
appVars == <<is_detecting, is_recognizing, ui_events, delayed_starts>>
vars == <<cwVars, wakeVars, voiceVars, histVars, recVars, seqVars, appVars>>

\* ------------------------------------------------------------------------
\* WakeWordDetector: construction
\* ------------------------------------------------------------------------

NoThread == <<"none", 0>>

\* a capture worker that is not spawned yet
NewRecordingWorker == [pc |-> "unborn", chunk |-> <<>>]

\* a detection worker that is not spawned yet, its locals unset
NewDetectionWorker ==
    [pc |-> "unborn", current_time |-> 0, audio_to_process |-> <<>>,
     extracted_at |-> 0, kept |-> <<>>]

\* WakeWordDetector.__init__
InitDetector ==
    /\ now = Epoch
    /\ is_running = FALSE
    /\ model_loaded = FALSE
    /\ audio = 0
    /\ stream = 0
    /\ open_streams = {}
    /\ audio_buffer = <<>>
    /\ buffer_lock = NoThread
    /\ last_processed_time = 0
    /\ last_detection_time = 0
    /\ detection_history = <<>>
    /\ session = 0
    /\ stopped = {}
    /\ ui_pc = "idle"
    /\ ui_last = [op |-> "none", was_running |-> FALSE]
    /\ rw = [s \in Sessions |-> NewRecordingWorker]
    /\ dw = [s \in Sessions |-> NewDetectionWorker]
    /\ frames_read = 0
    /\ appended = <<>>
    /\ callbacks = <<>>

\* ------------------------------------------------------------------------
\* VoiceController (ui.py): speak_response, cancel_speech and their workers
\* ------------------------------------------------------------------------

Utterances == 1..MaxUtterances

\* the mouth shapes of a sequence; "none" stands for None (a pause)
MouthShapes == {"a", "none"}

RECURSIVE SequencesOf(_)
SequencesOf(n) ==
    IF n = 0 THEN {<<>>}
    ELSE LET shorter == SequencesOf(n - 1)
         IN  shorter \cup {Append(q, m) : q \in shorter, m \in MouthShapes}

\* the results of _get_mouth_shape_sequence, as the shapes of their events
MouthSequences == SequencesOf(MaxEvents)

\* a speech worker (_speak_async) that is not started yet
NewSpeechWorker == [pc |-> "unborn", mouth_sequence |-> <<>>, index |-> 0,
                    first_mouth_pattern |-> TRUE, returned |-> 0]

\* VoiceController.__init__, with the playback command found on the platform
\* and the synthesizer initialised
InitVoiceStarted ==
    /\ is_speaking = FALSE
    /\ audio_process = 0
    /\ speech_thread = 0
    /\ utterances = 0
    /\ sw = [u \in Utterances |-> NewSpeechWorker]
    /\ at = [u \in Utterances |-> "unborn"]
    /\ start_event = [u \in Utterances |-> FALSE]
    /\ proc = [u \in Utterances |-> "none"]
    /\ temp_file = [u \in Utterances |-> FALSE]
    /\ signals = [u \in Utterances |-> <<>>]
    /\ mouth_log = [u \in Utterances |-> <<>>]
    /\ voice_last = [op |-> "none", was_speaking |-> FALSE, result |-> FALSE,
                     in_walk |-> FALSE, updates |-> 0]
    /\ remote_pattern = "none"
    /\ delivered = [u \in Utterances |-> {}]
    /\ failed = [u \in Utterances |-> {}]

\* what a call of _process_recording has done: the size of the artifact it
\* wrote (0 when it wrote none), and whether it called the transcriber and
\* transcription_callback
NoRecording == [size |-> 0, silent |-> TRUE, transcribed |-> FALSE,
                called_back |-> FALSE]
NoArtifact == [exists |-> FALSE, size |-> 0]

\* a capture worker outside stream.read
NothingHeld == [stream |-> 0, data |-> [bytes |-> 0, amp |-> 0]]

\* RealtimeRecognizer.__init__
InitRecognizer ==
    /\ is_recording = FALSE
    /\ rec_stream = 0
    /\ frames = <<>>
    /\ last_voice_time = 0
    /\ rec_now = Epoch
    /\ rec_session = 0
    /\ rec_pc = "idle"
    /\ rec_reads = 0
    /\ artifact = NoArtifact
    /\ rrw = [s \in Sessions |-> "unborn"]
    /\ rsm = [s \in Sessions |-> "unborn"]
    /\ silence_calls = <<>>
    /\ rec_last = NoRecording
    /\ rrw_held = [s \in Sessions |-> NothingHeld]
    /\ session_start = 0

\* WakeWordController.__init__, VoiceController.__init__ and an empty event
\* queue
InitApplication ==
    /\ is_detecting = FALSE
    /\ is_recognizing = FALSE
    /\ ui_events = <<>>
    /\ delayed_starts = 0

\* no call of _get_mouth_shape_sequence
InitSequenceIdle ==
    /\ audio_query = <<>>
    /\ speed_scale = 1
    /\ seq_pc = "idle"
    /\ phoneme_timeline = <<>>

\* no detection accepted yet
InitHistoryIdle ==
    /\ accepted = <<>>
    /\ hw = [w \in Sessions |-> "idle"]

InitVoiceIdle ==
    /\ InitVoiceStarted
    /\ audio_command = TRUE
    /\ synthesizer_ready = TRUE

\* _detect_audio_command finds a player or none; _init_synthesizer succeeds or
\* leaves synthesizer None
InitVoice ==
    /\ InitVoiceStarted
    /\ audio_command \in BOOLEAN
    /\ synthesizer_ready \in BOOLEAN
    /\ InitDetector
    /\ InitHistoryIdle
    /\ InitRecognizer
    /\ InitApplication
    /\ debug_mode = FALSE
    /\ cw_text = <<>>
    /\ cw_conf = 0
    /\ cw_pc = "call"
    /\ cw_result = FALSE
    /\ InitSequenceIdle

\* speak_response: returns at once when is_speaking; else sets the flag and
\* starts the worker thread
SpeakResponse ==
    /\ voice_last' = [op |-> "speak_response", was_speaking |-> is_speaking,
                      result |-> FALSE, in_walk |-> FALSE, updates |-> 0]
    /\ IF is_speaking
       THEN UNCHANGED <<is_speaking, utterances, sw, speech_thread>>
       ELSE /\ utterances < MaxUtterances
            /\ utterances' = utterances + 1
            /\ is_speaking' = TRUE
            /\ sw' = [sw EXCEPT ![utterances'].pc = "synthesis"]
            /\ speech_thread' = utterances'
    /\ UNCHANGED <<audio_process, audio_command, synthesizer_ready, at,
                   start_event, proc, temp_file, signals, mouth_log>>
    /\ UNCHANGED <<appVars, seqVars, cwVars, wakeVars, histVars, recVars, remoteVars>>

\* if not self.is_speaking: return False
CancelReturnsEarlyNever(speaking) == FALSE
CancelReturnsEarly(speaking) == ~speaking

\* cancel_speech: returns False at once when not speaking.  Else the playback
\* process is terminated when audio_process holds one that still runs; the
\* next statement calls self._set_mouth_pattern_async, which VoiceController
\* does not define (VoiceSynthesizer does): AttributeError, caught by the
\* except clause, and the call returns False with the flags as they were
CancelSpeech ==
    /\ LET in_walk == is_speaking /\ utterances > 0 /\ sw[utterances].pc = "walk"
       IN  voice_last' =
              [op |-> "cancel_speech", was_speaking |-> is_speaking,
               result |-> FALSE, in_walk |-> in_walk,
               updates |-> IF in_walk THEN Len(mouth_log[utterances]) ELSE 0]
    /\ IF /\ ~CancelReturnsEarly(is_speaking)
          /\ audio_process # 0
          /\ proc[audio_process] = "running"
       THEN proc' = [proc EXCEPT ![audio_process] = "terminated"]
       ELSE UNCHANGED proc
    /\ UNCHANGED <<is_speaking, audio_process, speech_thread, utterances,
                   audio_command, synthesizer_ready, sw, at, start_event,
                   temp_file, signals, mouth_log>>
    /\ UNCHANGED <<appVars, seqVars, cwVars, wakeVars, histVars, recVars, remoteVars>>

\* _speak_with_lipsync up to the start of the playback thread: without a
\* synthesizer, or when create_audio_query or synthesis raises, it returns;
\* else _perform_lipsync_with_cancel builds the mouth sequence and starts
\* _play_audio_with_process
SpeechSynthesis(u) ==
    /\ sw[u].pc = "synthesis"
    /\ \/ /\ synthesizer_ready
          /\ \E q \in MouthSequences :
                sw' = [sw EXCEPT ![u].pc = "wait_start", ![u].mouth_sequence = q]
          /\ at' = [at EXCEPT ![u] = "start"]
       \/ /\ sw' = [sw EXCEPT ![u].pc = "finally"]
          /\ UNCHANGED at
    /\ UNCHANGED <<is_speaking, audio_process, speech_thread, utterances,
                   audio_command, synthesizer_ready, start_event, proc,
                   temp_file, signals, mouth_log, voice_last>>
    /\ UNCHANGED <<appVars, seqVars, cwVars, wakeVars, histVars, recVars, remoteVars>>

\* audio_start_event.wait() returns
SpeechAudioStarted(u) ==
    /\ sw[u].pc = "wait_start"
    /\ start_event[u]
    /\ sw' = [sw EXCEPT ![u].pc = "walk", ![u].index = 1]
    /\ UNCHANGED <<is_speaking, audio_process, speech_thread, utterances,
                   audio_command, synthesizer_ready, at, start_event, proc,
                   temp_file, signals, mouth_log, voice_last>>
    /\ UNCHANGED <<appVars, seqVars, cwVars, wakeVars, histVars, recVars, remoteVars>>

\* server_pattern = f"mouth_{mouth_shape}" if mouth_shape else None;
\* if server_pattern: ...
ServerPatternAlways(shape) == TRUE
ServerPattern(shape) == shape # "none"

\* first_mouth_pattern after an update was issued: first_mouth_pattern = False
\* in the synchronous branch, untouched in the asynchronous one
FirstPatternKept(first) == first
AfterUpdate(first) == FALSE

\* one iteration of `for seq_time, mouth_shape, duration in mouth_sequence`:
\* break when is_speaking is false; else wait for the target time and set the
\* mouth pattern, the first one synchronously and the others asynchronously;
\* an event without shape sets nothing
SpeechWalk(u) ==
    /\ sw[u].pc = "walk"
    /\ sw[u].index <= Len(sw[u].mouth_sequence)
    /\ IF ~is_speaking
       THEN /\ sw' = [sw EXCEPT ![u].pc = "after_walk"]
            /\ UNCHANGED mouth_log
       ELSE LET shape == sw[u].mouth_sequence[sw[u].index]
            IN  IF ~ServerPattern(shape)
                THEN /\ sw' = [sw EXCEPT ![u].index = @ + 1]
                     /\ UNCHANGED mouth_log
                ELSE /\ sw' = [sw EXCEPT ![u].index = @ + 1,
                                         ![u].first_mouth_pattern = AfterUpdate(@)]
                     /\ mouth_log' =
                           [mouth_log EXCEPT ![u] =
                               Append(@, [pattern |-> shape,
                                          sync |-> sw[u].first_mouth_pattern])]
    /\ UNCHANGED <<is_speaking, audio_process, speech_thread, utterances,
                   audio_command, synthesizer_ready, at, start_event, proc,
                   temp_file, signals, voice_last>>
    /\ UNCHANGED <<appVars, seqVars, cwVars, wakeVars, histVars, recVars, remoteVars>>

\* the loop is over: when is_speaking still holds, the mouth pattern is reset
\* after 0.2 s; the function returns the value of self.audio_process
SpeechWalkEnds(u) ==
    /\ \/ sw[u].pc = "after_walk"
       \/ sw[u].pc = "walk" /\ sw[u].index > Len(sw[u].mouth_sequence)
    /\ sw' = [sw EXCEPT ![u].pc = "store_process", ![u].returned = audio_process]
    /\ IF is_speaking
       THEN mouth_log' = [mouth_log EXCEPT ![u] =
                             Append(@, [pattern |-> "none", sync |-> FALSE])]
       ELSE UNCHANGED mouth_log
    /\ UNCHANGED <<is_speaking, audio_process, speech_thread, utterances,
                   audio_command, synthesizer_ready, at, start_event, proc,
                   temp_file, signals, voice_last>>
    /\ UNCHANGED <<appVars, seqVars, cwVars, wakeVars, histVars, recVars, remoteVars>>

\* self.audio_process = self._perform_lipsync_with_cancel(...): the returned
\* value is stored, over whatever the playback thread has stored meanwhile
SpeechStoreProcess(u) ==
    /\ sw[u].pc = "store_process"
    /\ audio_process' = sw[u].returned
    /\ sw' = [sw EXCEPT ![u].pc = "finally", ![u].returned = 0]
    /\ UNCHANGED <<is_speaking, speech_thread, utterances, audio_command,
                   synthesizer_ready, at, start_event, proc, temp_file, signals,
                   mouth_log, voice_last>>
    /\ UNCHANGED <<appVars, seqVars, cwVars, wakeVars, histVars, recVars, remoteVars>>

\* finally: self.is_speaking = False
SpeechFinallyFlag(u) ==
    /\ sw[u].pc = "finally"
    /\ is_speaking' = FALSE
    /\ sw' = [sw EXCEPT ![u].pc = "finally_rest"]
    /\ UNCHANGED <<audio_process, speech_thread, utterances, audio_command,
                   synthesizer_ready, at, start_event, proc, temp_file, signals,
                   mouth_log, voice_last>>
    /\ UNCHANGED <<appVars, seqVars, cwVars, wakeVars, histVars, recVars, remoteVars>>

\* finally, the rest: audio_process, speech_thread and lipsync_thread are set
\* to None and speech_completed is emitted
SpeechFinallyRest(u) ==
    /\ sw[u].pc = "finally_rest"
    /\ audio_process' = 0
    /\ speech_thread' = 0
    /\ signals' = [signals EXCEPT ![u] = Append(@, "speech_completed")]
    /\ sw' = [sw EXCEPT ![u].pc = "done", ![u].index = 0,
                        ![u].first_mouth_pattern = TRUE]
    /\ UNCHANGED <<is_speaking, utterances, audio_command, synthesizer_ready,
                   at, start_event, proc, temp_file, mouth_log, voice_last>>
    /\ UNCHANGED <<appVars, seqVars, cwVars, wakeVars, histVars, recVars, remoteVars>>

\* _play_audio_with_process up to start_event.set(): without a playback command
\* the event is set and the thread returns; else the wav data are written to a
\* temporary file first
AudioBegin(u) ==
    /\ at[u] = "start"
    /\ start_event' = [start_event EXCEPT ![u] = TRUE]
    /\ IF audio_command
       THEN /\ temp_file' = [temp_file EXCEPT ![u] = TRUE]
            /\ at' = [at EXCEPT ![u] = "emit_started"]
       ELSE /\ at' = [at EXCEPT ![u] = "done"]
            /\ UNCHANGED temp_file
    /\ UNCHANGED <<is_speaking, audio_process, speech_thread, utterances,
                   audio_command, synthesizer_ready, sw, proc, signals,
                   mouth_log, voice_last>>
    /\ UNCHANGED <<appVars, seqVars, cwVars, wakeVars, histVars, recVars, remoteVars>>

\* writing the temporary file raises: the except clause prints the error and
\* the thread ends with the start event not set
AudioWriteFails(u) ==
    /\ at[u] = "start"
    /\ audio_command
    /\ at' = [at EXCEPT ![u] = "done"]
    /\ UNCHANGED <<is_speaking, audio_process, speech_thread, utterances,
                   audio_command, synthesizer_ready, sw, start_event, proc,
                   temp_file, signals, mouth_log, voice_last>>
    /\ UNCHANGED <<appVars, seqVars, cwVars, wakeVars, histVars, recVars, remoteVars>>

\* self.speech_started.emit()
AudioEmitStarted(u) ==
    /\ at[u] = "emit_started"
    /\ signals' = [signals EXCEPT ![u] = Append(@, "speech_started")]
    /\ at' = [at EXCEPT ![u] = "popen"]
    /\ UNCHANGED <<is_speaking, audio_process, speech_thread, utterances,
                   audio_command, synthesizer_ready, sw, start_event, proc,
                   temp_file, mouth_log, voice_last>>
    /\ UNCHANGED <<appVars, seqVars, cwVars, wakeVars, histVars, recVars, remoteVars>>

\* self.audio_process = subprocess.Popen([...])
AudioPopen(u) ==
    /\ at[u] = "popen"
    /\ proc' = [proc EXCEPT ![u] = "running"]
    /\ audio_process' = u
    /\ at' = [at EXCEPT ![u] = "wait"]
    /\ UNCHANGED <<is_speaking, speech_thread, utterances, audio_command,
                   synthesizer_ready, sw, start_event, temp_file, signals,
                   mouth_log, voice_last>>
    /\ UNCHANGED <<appVars, seqVars, cwVars, wakeVars, histVars, recVars, remoteVars>>

\* subprocess.Popen raises: the except clause prints the error and the thread
\* ends without reaching os.unlink
AudioPopenRaises(u) ==
    /\ at[u] = "popen"
    /\ at' = [at EXCEPT ![u] = "done"]
    /\ UNCHANGED <<is_speaking, audio_process, speech_thread, utterances,
                   audio_command, synthesizer_ready, sw, start_event, proc,
                   temp_file, signals, mouth_log, voice_last>>
    /\ UNCHANGED <<appVars, seqVars, cwVars, wakeVars, histVars, recVars, remoteVars>>

\* the player plays the file to its end
ProcessExits(u) ==
    /\ proc[u] = "running"
    /\ proc' = [proc EXCEPT ![u] = "exited"]
    /\ UNCHANGED <<is_speaking, audio_process, speech_thread, utterances,
                   audio_command, synthesizer_ready, sw, at, start_event,
                   temp_file, signals, mouth_log, voice_last>>
    /\ UNCHANGED <<appVars, seqVars, cwVars, wakeVars, histVars, recVars, remoteVars>>

\* self.audio_process.wait() returns and the temporary file is unlinked
AudioWaitReturns(u) ==
    /\ at[u] = "wait"
    /\ proc[u] \in {"exited", "terminated"}
    /\ temp_file' = [temp_file EXCEPT ![u] = FALSE]
    /\ at' = [at EXCEPT ![u] = "done"]
    /\ UNCHANGED <<is_speaking, audio_process, speech_thread, utterances,
                   audio_command, synthesizer_ready, sw, start_event, proc,
                   signals, mouth_log, voice_last>>
    /\ UNCHANGED <<appVars, seqVars, cwVars, wakeVars, histVars, recVars, remoteVars>>

NextVoice ==
    \/ SpeakResponse
    \/ CancelSpeech
    \/ \E u \in Utterances : SpeechSynthesis(u)
    \/ \E u \in Utterances : SpeechAudioStarted(u)
    \/ \E u \in Utterances : SpeechWalk(u)
    \/ \E u \in Utterances : SpeechWalkEnds(u)
    \/ \E u \in Utterances : SpeechStoreProcess(u)
    \/ \E u \in Utterances : SpeechFinallyFlag(u)
    \/ \E u \in Utterances : SpeechFinallyRest(u)
    \/ \E u \in Utterances : AudioBegin(u)
    \/ \E u \in Utterances : AudioWriteFails(u)
    \/ \E u \in Utterances : AudioEmitStarted(u)
    \/ \E u \in Utterances : AudioPopen(u)
    \/ \E u \in Utterances : AudioPopenRaises(u)
    \/ \E u \in Utterances : ProcessExits(u)
    \/ \E u \in Utterances : AudioWaitReturns(u)

SpecVoice == InitVoice /\ [][NextVoice]_vars

\* ------------------------------------------------------------------------
\* The remote display: the requests of _set_mouth_pattern and of the threads
\* of _set_mouth_pattern_async
\* ------------------------------------------------------------------------

\* time.sleep(0.2) before the final update, and the timeout of the request
\* of an asynchronous update, in milliseconds
SettleDelayMs == 200
AsyncTimeoutMs == 50

controllerVars ==
    <<is_speaking, audio_process, speech_thread, audio_command, synthesizer_ready,
      utterances, sw, at, start_event, proc, temp_file, signals, mouth_log,
      voice_last>>

\* the updates of an utterance whose request has not ended yet
InFlight(u) == (1..Len(mouth_log[u])) \ (delivered[u] \cup failed[u])

\* update j of utterance v is issued before update i of utterance u: the walk
\* of an utterance is over before speak_response starts the next one
IssuedBefore(v, j, u, i) == v < u \/ (v = u /\ j < i)

\* the final update of a walk is issued after the settle delay, which outlasts
\* the timeout of the requests of the shape updates before it: they have ended
\* when the final update, or an update of a later utterance, is issued
NeverSettled(v, j, u, i) == FALSE
Settled(v, j, u, i) ==
    /\ AsyncTimeoutMs < SettleDelayMs
    /\ mouth_log[v][j].pattern # "none"
    /\ v < u \/ mouth_log[u][i].pattern = "none"

\* the requests issued before update i of utterance u that have ended when it
\* is issued have ended: _set_mouth_pattern returns before the walk goes on,
\* and the requests of the threads of _set_mouth_pattern_async end within
\* their timeout
EarlierRequestsEnded(u, i) ==
    \A v \in 1..u : \A j \in 1..Len(mouth_log[v]) :
        (IssuedBefore(v, j, u, i) /\ (mouth_log[v][j].sync \/ Settled(v, j, u, i)))
            => j \notin InFlight(v)

\* urlopen returns 200: the display shows the pattern of the request
RequestSucceeds(u, i) ==
    /\ i \in InFlight(u)
    /\ EarlierRequestsEnded(u, i)
    /\ remote_pattern' = mouth_log[u][i].pattern
    /\ delivered' = [delivered EXCEPT ![u] = @ \cup {i}]
    /\ UNCHANGED <<failed, controllerVars>>
    /\ UNCHANGED <<appVars, seqVars, cwVars, wakeVars, histVars, recVars>>

\* urlopen raises (no server, timeout): the exception is swallowed
RequestFails(u, i) ==
    /\ i \in InFlight(u)
    /\ EarlierRequestsEnded(u, i)
    /\ failed' = [failed EXCEPT ![u] = @ \cup {i}]
    /\ UNCHANGED <<remote_pattern, delivered, controllerVars>>
    /\ UNCHANGED <<appVars, seqVars, cwVars, wakeVars, histVars, recVars>>

\* speak_response, for the utterances whose requests are followed
SpeakResponseWalk ==
    /\ is_speaking \/ utterances < MaxWalks
    /\ SpeakResponse

\* the speech worker, the playback thread and the requests to the display
NextWalk ==
    \/ SpeakResponseWalk
    \/ \E u \in Utterances : SpeechSynthesis(u)
    \/ \E u \in Utterances : SpeechAudioStarted(u)
    \/ \E u \in Utterances : SpeechWalk(u)
    \/ \E u \in Utterances : SpeechWalkEnds(u)
    \/ \E u \in Utterances : SpeechStoreProcess(u)
    \/ \E u \in Utterances : SpeechFinallyFlag(u)
    \/ \E u \in Utterances : SpeechFinallyRest(u)
    \/ \E u \in Utterances : AudioBegin(u)
    \/ \E u \in Utterances : AudioWriteFails(u)
    \/ \E u \in Utterances : AudioEmitStarted(u)
    \/ \E u \in Utterances : AudioPopen(u)
    \/ \E u \in Utterances : AudioPopenRaises(u)
    \/ \E u \in Utterances : ProcessExits(u)
    \/ \E u \in Utterances : AudioWaitReturns(u)
    \/ \E u \in Utterances : \E i \in 1..(MaxEvents + 1) : RequestSucceeds(u, i)
    \/ \E u \in Utterances : \E i \in 1..(MaxEvents + 1) : RequestFails(u, i)

SpecWalk == InitVoice /\ [][NextWalk]_vars

\* ------------------------------------------------------------------------
\* Claims about VoiceController
\* ------------------------------------------------------------------------

\* the utterances whose speech worker thread is alive
LiveSpeechWorkers == {u \in Utterances : sw[u].pc \notin {"unborn", "done"}}
\* the utterances whose playback process runs
RunningPlayers == {u \in Utterances : proc[u] = "running"}

\* C2: at most one utterance is in progress: there are never two live speech
\* worker threads and never two running playback processes.
C2_AtMostOneUtterance ==
    /\ Cardinality(LiveSpeechWorkers) <= 1
    /\ Cardinality(RunningPlayers) <= 1

\* ------------------------------------------------------------------------
\* WakeWordDetector.start_detection and stop_detection
\* ------------------------------------------------------------------------

\* if self.is_running: return
StartReturnsEarlyNever(running) == FALSE
StartReturnsEarly(running) == running

\* if not self.is_running: return
StopReturnsEarlyNever(running) == FALSE
StopReturnsEarly(running) == ~running

\* the calls so far that did not return at once: every session was started,
\* and stopped unless it is the running one
EffectiveCalls == 2 * session - (IF is_running THEN 1 ELSE 0)

\* start_detection: returns at once when running; else loads the model, opens
\* the input stream, sets is_running and starts the two workers
StartDetection ==
    /\ ui_pc = "idle"
    /\ ui_last' = [op |-> "start_detection", was_running |-> is_running]
    /\ IF StartReturnsEarly(is_running)
       THEN UNCHANGED <<is_running, model_loaded, audio, stream, open_streams,
                        session, rw, dw>>
       ELSE /\ EffectiveCalls < MaxCalls
            /\ session' = session + 1
            /\ model_loaded' = TRUE
            /\ audio' = session'
            /\ stream' = session'
            /\ open_streams' = open_streams \cup {session'}
            /\ is_running' = TRUE
            /\ rw' = [rw EXCEPT ![session'].pc = "top"]
            /\ dw' = [dw EXCEPT ![session'].pc = "top"]
    /\ UNCHANGED <<now, audio_buffer, buffer_lock, last_processed_time,
                   last_detection_time, detection_history, stopped, ui_pc,
                   frames_read, appended, callbacks>>
    /\ UNCHANGED <<appVars, seqVars, cwVars, voiceVars, histVars, recVars>>

\* stop_detection up to self.is_running = False
StopDetection ==
    /\ ui_pc = "idle"
    /\ ui_last' = [op |-> "stop_detection", was_running |-> is_running]
    /\ IF StopReturnsEarly(is_running)
       THEN UNCHANGED <<is_running, ui_pc>>
       ELSE /\ EffectiveCalls < MaxCalls
            /\ is_running' = FALSE
            /\ ui_pc' = "closing"
    /\ UNCHANGED <<now, model_loaded, audio, stream, open_streams, audio_buffer,
                   buffer_lock, last_processed_time, last_detection_time,
                   detection_history, session, stopped, rw, dw,
                   frames_read, appended, callbacks>>
    /\ UNCHANGED <<appVars, seqVars, cwVars, voiceVars, histVars, recVars>>

\* the rest of stop_detection: the stream is stopped and closed, PyAudio is
\* terminated, both handles are set to None, and the call returns
StopDetectionClose ==
    /\ ui_pc = "closing"
    /\ open_streams' = open_streams \ {stream}
    /\ stream' = 0
    /\ audio' = 0
    /\ stopped' = stopped \cup {session}
    /\ ui_pc' = "idle"
    /\ UNCHANGED <<now, is_running, model_loaded, audio_buffer, buffer_lock,
                   last_processed_time, last_detection_time, detection_history,
                   session, ui_last, rw, dw, frames_read, appended, callbacks>>
    /\ UNCHANGED <<appVars, seqVars, cwVars, voiceVars, histVars, recVars>>

\* ------------------------------------------------------------------------
\* buffer_lock
\* ------------------------------------------------------------------------

\* `with self.buffer_lock:` is entered only when no thread holds the lock
LockIgnored(holder) == TRUE
LockFree(holder) == holder = NoThread

\* ------------------------------------------------------------------------
\* WakeWordDetector._recording_worker
\* ------------------------------------------------------------------------

\* the frame a read returns: Chunk samples that follow the ones read before
Frame(first, amp) == [i \in 1..Chunk |-> [id |-> first + i, amp |-> amp]]

\* while self.is_running and self.stream: data = self.stream.read(chunk);
\* audio_chunk = np.frombuffer(data).  The read blocks until the microphone has
\* filled the frame, so the clock is a frame later when it returns.  The loop
\* ends when the test fails.
RecordingRead(s) ==
    /\ rw[s].pc = "top"
    /\ IF is_running /\ stream # 0
       THEN /\ frames_read < MaxFrames
            /\ \E amp \in Amplitudes :
                  rw' = [rw EXCEPT ![s].pc = "lock",
                                   ![s].chunk = Frame(frames_read * Chunk, amp)]
            /\ frames_read' = frames_read + 1
            /\ now' = now + FrameDurationX10
       ELSE /\ rw' = [rw EXCEPT ![s].pc = "done"]
            /\ UNCHANGED <<frames_read, now>>
    /\ UNCHANGED <<is_running, model_loaded, audio, stream, open_streams,
                   audio_buffer, buffer_lock, last_processed_time,
                   last_detection_time, detection_history, session, stopped,
                   ui_pc, ui_last, dw, appended, callbacks>>
    /\ UNCHANGED <<appVars, seqVars, cwVars, voiceVars, histVars, recVars>>

\* the read raises (the stream is None or closed, or the device fails):
\* except Exception: ... break
RecordingReadFails(s) ==
    /\ rw[s].pc = "top"
    /\ rw' = [rw EXCEPT ![s].pc = "done"]
    /\ UNCHANGED <<now, is_running, model_loaded, audio, stream, open_streams,
                   audio_buffer, buffer_lock, last_processed_time,
                   last_detection_time, detection_history, session, stopped,
                   ui_pc, ui_last, dw, frames_read, appended, callbacks>>
    /\ UNCHANGED <<appVars, seqVars, cwVars, voiceVars, histVars, recVars>>

\* with self.buffer_lock:
\*     self.audio_buffer = np.concatenate([self.audio_buffer, audio_chunk])
\* The worker waits for the lock, appends and releases the lock.
RecordingAppend(s) ==
    /\ rw[s].pc = "lock"
    /\ LockFree(buffer_lock)
    /\ audio_buffer' = audio_buffer \o rw[s].chunk
    /\ appended' = appended \o rw[s].chunk
    /\ rw' = [rw EXCEPT ![s].pc = "top", ![s].chunk = <<>>]
    /\ UNCHANGED <<now, is_running, model_loaded, audio, stream, open_streams,
                   buffer_lock, last_processed_time, last_detection_time,
                   detection_history, session, stopped, ui_pc, ui_last, dw,
                   frames_read, callbacks>>
    /\ UNCHANGED <<appVars, seqVars, cwVars, voiceVars, histVars, recVars>>

\* ------------------------------------------------------------------------
\* WakeWordDetector._detection_worker
\* ------------------------------------------------------------------------

\* buffer_duration < REALTIME_CONFIG["buffer_seconds"], with
\* buffer_duration = len(self.audio_buffer) / REALTIME_CONFIG["rate"]
BufferNotLonger(len) == len * 10 > BufferSecondsX10 * Rate
BufferTooShort(len) == len * 10 < BufferSecondsX10 * Rate

\* audio_to_process = self.audio_buffer[-process_samples:]
ExtractOldest(buffer) == FirstSamples(buffer, ProcessSamples)
ExtractWindow(buffer) == LastSamples(buffer, ProcessSamples)

\* if len(self.audio_buffer) > keep_samples:
\*     self.audio_buffer = self.audio_buffer[-keep_samples:]
TrimKeepsWindow(buffer) ==
    IF Len(buffer) > ProcessSamples THEN LastSamples(buffer, ProcessSamples) ELSE buffer
TrimToOverlap(buffer) ==
    IF Len(buffer) > OverlapSamples THEN LastSamples(buffer, OverlapSamples) ELSE buffer

\* the head of the loop: `while self.is_running`, current_time = time.time(),
\* the processing-interval test and the cooldown test; a failed test sleeps
\* and continues
DetectionLoopHead(s) ==
    /\ dw[s].pc = "top"
    /\ IF ~is_running
       THEN dw' = [dw EXCEPT ![s].pc = "done"]
       ELSE IF now - last_processed_time < ProcessingIntervalX10
       THEN UNCHANGED dw
       ELSE IF now - last_detection_time < CooldownSecondsX10
       THEN UNCHANGED dw
       ELSE dw' = [dw EXCEPT ![s].current_time = now, ![s].pc = "lock"]
    /\ UNCHANGED <<now, is_running, model_loaded, audio, stream, open_streams,
                   audio_buffer, buffer_lock, last_processed_time,
                   last_detection_time, detection_history, session, stopped,
                   ui_pc, ui_last, rw, frames_read, appended, callbacks>>
    /\ UNCHANGED <<appVars, seqVars, cwVars, voiceVars, histVars, recVars>>

\* with self.buffer_lock: the worker waits for the lock, then makes the duration
\* test; when the buffer is long enough the window is sliced and the buffer
\* that is to be kept is computed, else the worker sleeps inside the block
DetectionExtract(s) ==
    /\ dw[s].pc = "lock"
    /\ LockFree(buffer_lock)
    /\ buffer_lock' = <<"dw", s>>
    /\ IF BufferTooShort(Len(audio_buffer))
       THEN dw' = [dw EXCEPT ![s].pc = "sleep_locked", ![s].current_time = 0]
       ELSE dw' = [dw EXCEPT ![s].pc = "trim",
                             ![s].audio_to_process = ExtractWindow(audio_buffer),
                             ![s].extracted_at = Len(appended),
                             ![s].kept = TrimToOverlap(audio_buffer)]
    /\ UNCHANGED <<now, is_running, model_loaded, audio, stream, open_streams,
                   audio_buffer, last_processed_time, last_detection_time,
                   detection_history, session, stopped, ui_pc, ui_last, rw,
                   frames_read, appended, callbacks>>
    /\ UNCHANGED <<appVars, seqVars, cwVars, voiceVars, histVars, recVars>>

\* time.sleep(0.05) inside the with block ends; continue leaves the block and
\* releases the lock
DetectionSleepLockedEnds(s) ==
    /\ dw[s].pc = "sleep_locked"
    /\ buffer_lock' = NoThread
    /\ dw' = [dw EXCEPT ![s].pc = "top"]
    /\ UNCHANGED <<now, is_running, model_loaded, audio, stream, open_streams,
                   audio_buffer, last_processed_time, last_detection_time,
                   detection_history, session, stopped, ui_pc, ui_last, rw,
                   frames_read, appended, callbacks>>
    /\ UNCHANGED <<appVars, seqVars, cwVars, voiceVars, histVars, recVars>>

\* the locals of an iteration are dropped when it ends
IterationEndsWorker(w) ==
    [w EXCEPT !.pc = "done", !.current_time = 0, !.audio_to_process = <<>>,
              !.extracted_at = 0]
EndIteration(w) ==
    [w EXCEPT !.pc = "top", !.current_time = 0, !.audio_to_process = <<>>,
              !.extracted_at = 0]

\* the trimmed buffer is stored and the lock is released; then
\* _process_audio_for_wake_word up to the call of the transcriber: a window
\* below the volume floor returns, and last_processed_time is set
DetectionTrim(s) ==
    /\ dw[s].pc = "trim"
    /\ audio_buffer' = dw[s].kept
    /\ buffer_lock' = NoThread
    /\ IF VolumeBelowFloor(dw[s].audio_to_process)
       THEN /\ last_processed_time' = dw[s].current_time
            /\ dw' = [dw EXCEPT ![s] = [EndIteration(dw[s]) EXCEPT !.kept = <<>>]]
       ELSE /\ dw' = [dw EXCEPT ![s].pc = "transcribing", ![s].kept = <<>>]
            /\ UNCHANGED last_processed_time
    /\ UNCHANGED <<now, is_running, model_loaded, audio, stream, open_streams,
                   last_detection_time, detection_history,
                   session, stopped, ui_pc, ui_last, rw, frames_read, appended,
                   callbacks>>
    /\ UNCHANGED <<appVars, seqVars, cwVars, voiceVars, histVars, recVars>>

\* the texts and confidences the transcriber returns in a detection session
TranscribedTexts ==
    { WakeWord \o <<12289, 20170, 26085, 12398, 22825, 27671, 12399, 65311>>,
      <<104, 101, 108, 108, 111, 32, 116, 104, 101, 114, 101>> }
TranscribedConfidences == {50, 75}

\* self.detection_history.append(detection_info), then pop(0) past the maximum
AppendHistory(history, info) ==
    LET longer == Append(history, info)
    IN  IF Len(longer) > MaxDetectionHistory THEN Tail(longer) ELSE longer

\* the transcriber raises: the exception is caught in _detection_worker and
\* last_processed_time is not set
DetectionTranscribeRaises(s) ==
    /\ dw[s].pc = "transcribing"
    /\ dw' = [dw EXCEPT ![s] = EndIteration(dw[s])]
    /\ UNCHANGED <<now, is_running, model_loaded, audio, stream, open_streams,
                   audio_buffer, buffer_lock, last_processed_time,
                   last_detection_time, detection_history, session, stopped,
                   ui_pc, ui_last, rw, frames_read, appended, callbacks>>
    /\ UNCHANGED <<appVars, seqVars, cwVars, voiceVars, histVars, recVars>>

\* the transcriber returns no segment, or segments whose text is empty
DetectionTranscribedNothing(s) ==
    /\ dw[s].pc = "transcribing"
    /\ last_processed_time' = dw[s].current_time
    /\ dw' = [dw EXCEPT ![s] = EndIteration(dw[s])]
    /\ UNCHANGED <<now, is_running, model_loaded, audio, stream, open_streams,
                   audio_buffer, buffer_lock, last_detection_time,
                   detection_history, session, stopped, ui_pc, ui_last, rw,
                   frames_read, appended, callbacks>>
    /\ UNCHANGED <<appVars, seqVars, cwVars, voiceVars, histVars, recVars>>

\* the transcriber returns a text: _check_wake_word decides; on acceptance the
\* history entry is appended and wake_word_callback is called
DetectionTranscribed(s) ==
    /\ dw[s].pc = "transcribing"
    /\ \E text \in TranscribedTexts, confidence \in TranscribedConfidences :
          IF CheckWakeWord(text, confidence)
          THEN /\ detection_history' =
                     AppendHistory(detection_history,
                                   [timestamp |-> now, text |-> text,
                                    confidence |-> confidence,
                                    samples |-> Len(dw[s].audio_to_process)])
               /\ callbacks' =
                     Append(callbacks,
                            [time |-> now, worker |-> s, text |-> text,
                             confidence |-> confidence,
                             after_stop |-> s \in stopped])
               /\ dw' = [dw EXCEPT ![s].pc = "callback"]
               /\ UNCHANGED last_processed_time
          ELSE /\ last_processed_time' = dw[s].current_time
               /\ dw' = [dw EXCEPT ![s] = EndIteration(dw[s])]
               /\ UNCHANGED <<detection_history, callbacks>>
    /\ UNCHANGED <<now, is_running, model_loaded, audio, stream, open_streams,
                   audio_buffer, buffer_lock, last_detection_time, session,
                   stopped, ui_pc, ui_last, rw, frames_read, appended>>
    /\ UNCHANGED <<appVars, seqVars, cwVars, voiceVars, histVars, recVars>>

\* wake_word_callback returns: self.last_detection_time = time.time(), and back
\* in the loop self.last_processed_time = current_time
DetectionCallbackReturns(s) ==
    /\ dw[s].pc = "callback"
    /\ last_detection_time' = now
    /\ last_processed_time' = dw[s].current_time
    /\ dw' = [dw EXCEPT ![s] = EndIteration(dw[s])]
    /\ UNCHANGED <<now, is_running, model_loaded, audio, stream, open_streams,
                   audio_buffer, buffer_lock, detection_history, session,
                   stopped, ui_pc, ui_last, rw, frames_read, appended, callbacks>>
    /\ UNCHANGED <<appVars, seqVars, cwVars, voiceVars, histVars, recVars>>

\* wake_word_callback raises: the exception leaves
\* _process_audio_for_wake_word before last_detection_time is set and is caught
\* by the except clause of the loop, past `self.last_processed_time =
\* current_time`
DetectionCallbackRaises(s) ==
    /\ dw[s].pc = "callback"
    /\ dw' = [dw EXCEPT ![s] = EndIteration(dw[s])]
    /\ UNCHANGED <<now, is_running, model_loaded, audio, stream, open_streams,
                   audio_buffer, buffer_lock, last_processed_time,
                   last_detection_time, detection_history, session, stopped,
                   ui_pc, ui_last, rw, frames_read, appended, callbacks>>
    /\ UNCHANGED <<appVars, seqVars, cwVars, voiceVars, histVars, recVars>>

InitWake ==
    /\ InitDetector
    /\ InitVoiceIdle
    /\ InitHistoryIdle
    /\ InitRecognizer
    /\ InitApplication
    /\ debug_mode = FALSE
    /\ cw_text = <<>>
    /\ cw_conf = 0
    /\ cw_pc = "call"
    /\ cw_result = FALSE
    /\ InitSequenceIdle

NextWake ==
    \/ StartDetection
    \/ StopDetection
    \/ StopDetectionClose
    \/ \E s \in Sessions : RecordingRead(s)
    \/ \E s \in Sessions : RecordingReadFails(s)
    \/ \E s \in Sessions : RecordingAppend(s)
    \/ \E s \in Sessions : DetectionLoopHead(s)
    \/ \E s \in Sessions : DetectionExtract(s)
    \/ \E s \in Sessions : DetectionSleepLockedEnds(s)
    \/ \E s \in Sessions : DetectionTrim(s)
    \/ \E s \in Sessions : DetectionTranscribeRaises(s)
    \/ \E s \in Sessions : DetectionTranscribedNothing(s)
    \/ \E s \in Sessions : DetectionTranscribed(s)
    \/ \E s \in Sessions : DetectionCallbackReturns(s)

SpecWake == InitWake /\ [][NextWake]_vars

\* the detector with a callback that may raise
NextWakeRaising ==
    \/ NextWake
    \/ \E s \in Sessions : DetectionCallbackRaises(s)

SpecWakeRaising == InitWake /\ [][NextWakeRaising]_vars

\* ------------------------------------------------------------------------
\* Claims about the detector
\* ------------------------------------------------------------------------

Min(a, b) == IF a < b THEN a ELSE b

\* b is the run of a that ends at position last
IsRunEndingAt(b, a, last) ==
    /\ Len(b) <= last
    /\ last <= Len(a)
    /\ \A i \in 1..Len(b) : b[i] = a[last - Len(b) + i]

\* C1: any two invocations of the wake-word callback are at least
\* cooldown_seconds apart.
C1_CallbacksCooldownApart ==
    \A i, j \in 1..Len(callbacks) :
        i < j => callbacks[j].time - callbacks[i].time >= CooldownSecondsX10

\* C3: the callback is never invoked by a worker of a session whose
\* stop_detection has returned.
C3_NoCallbackAfterStop ==
    \A i \in 1..Len(callbacks) : ~callbacks[i].after_stop

\* C4: when fewer samples than the window length are buffered, the extraction
\* hands no window to processing and leaves audio_buffer as it was, up to the
\* release of the lock.
C4_ShortBufferUntouched ==
    [][\A s \in Sessions :
          /\ (dw[s].pc = "lock" /\ dw'[s].pc # "lock"
                  /\ Len(audio_buffer) < ProcessSamples)
                => (/\ dw'[s].pc = "sleep_locked"
                    /\ dw'[s].audio_to_process = <<>>
                    /\ audio_buffer' = audio_buffer)
          /\ dw[s].pc = "sleep_locked"
                => (/\ dw'[s].pc \in {"sleep_locked", "top"}
                    /\ dw'[s].audio_to_process = <<>>
                    /\ audio_buffer' = audio_buffer)]_vars

\* a worker found a buffer that holds samples, but too few, and sleeps
C4_Witness ==
    \E s \in Sessions :
        /\ dw[s].pc = "sleep_locked"
        /\ Len(audio_buffer) > 0
        /\ Len(audio_buffer) < ProcessSamples

\* C5: when a successful extraction releases the lock, audio_buffer has
\* min(length before the extraction, overlap_samples) samples.
C5_TrimmedToOverlap ==
    [][\A s \in Sessions :
          (dw[s].pc = "trim" /\ dw'[s].pc # "trim")
             => Len(audio_buffer') = Min(Len(audio_buffer), OverlapSamples)]_vars

\* an extraction from a buffer longer than the window has released the lock
C5_Witness ==
    \E s \in Sessions :
        /\ dw[s].pc = "transcribing"
        /\ buffer_lock = NoThread
        /\ Len(audio_buffer) = OverlapSamples
        /\ dw[s].extracted_at > ProcessSamples

\* C6: an extracted window is exactly the last process_samples samples of the
\* buffer it is extracted from, in their order in the buffer.
C6_WindowIsTail ==
    \A s \in Sessions :
        dw[s].pc = "trim"
          => /\ Len(dw[s].audio_to_process) = ProcessSamples
             /\ IsRunEndingAt(dw[s].audio_to_process, audio_buffer, Len(audio_buffer))

\* a window is extracted from a buffer that holds older samples too
C6_Witness ==
    \E s \in Sessions :
        /\ dw[s].pc = "trim"
        /\ Len(audio_buffer) > ProcessSamples

\* C7: the critical sections on the buffer exclude each other: one worker at
\* most is inside the lock, and it is the holder; the buffer is a suffix of
\* the samples appended so far; a window is a run of them that ends where the
\* appended samples ended when it was extracted; and nothing is appended
\* between an extraction and its trim.
C7_BufferCriticalSections ==
    /\ \A s, t \in Sessions :
          (dw[s].pc \in {"sleep_locked", "trim"} /\ dw[t].pc \in {"sleep_locked", "trim"})
             => s = t
    /\ \A s \in Sessions :
          dw[s].pc \in {"sleep_locked", "trim"} => buffer_lock = <<"dw", s>>
    /\ IsRunEndingAt(audio_buffer, appended, Len(appended))
    /\ \A s \in Sessions :
          /\ dw[s].audio_to_process # <<>>
                => IsRunEndingAt(dw[s].audio_to_process, appended, dw[s].extracted_at)
          /\ dw[s].pc = "trim"
                => /\ dw[s].extracted_at = Len(appended)
                   /\ IsRunEndingAt(dw[s].kept, appended, Len(appended))

\* a capture worker holds a frame and waits for the lock while a detection
\* worker is between its extraction and its trim
C7_Witness ==
    \E s, t \in Sessions :
        /\ rw[s].pc = "lock"
        /\ dw[t].pc = "trim"
        /\ buffer_lock = <<"dw", t>>

\* what start_detection and stop_detection can change, but for the record of
\* the call itself
detectorState ==
    <<now, is_running, model_loaded, audio, stream, open_streams, audio_buffer,
      buffer_lock, last_processed_time, last_detection_time, detection_history,
      session, stopped, ui_pc, rw, dw, frames_read, appended, callbacks>>

\* C8: start_detection on a running detector and stop_detection on an idle
\* detector change no state: no stream is opened and no worker is spawned.
C8_StartStopIdempotent ==
    [][((StartDetection /\ is_running) \/ (StopDetection /\ ~is_running))
          => UNCHANGED detectorState]_vars

\* start_detection was called on a running detector, which still has its one
\* stream and its two workers
C8_Witness ==
    /\ ui_last = [op |-> "start_detection", was_running |-> TRUE]
    /\ is_running
    /\ open_streams = {session}
    /\ session = 1
    /\ \A s \in Sessions : s > 1 => (rw[s].pc = "unborn" /\ dw[s].pc = "unborn")

\* ------------------------------------------------------------------------
\* Direct calls of _check_wake_word on bounded inputs
\* ------------------------------------------------------------------------

\* pieces of text: the variants, and fillers in ASCII, full-width Latin,
\* kana, kanji, whitespace and the empty text
Fillers ==
    { <<>>,
      <<32>>,                                   \* " "
      <<12288>>,                                \* ideographic space
      <<104, 101, 108, 108, 111, 32, 116, 104, 101, 114, 101>>, \* "hello there"
      <<83, 73, 82, 73, 85, 83>>,               \* "SIRIUS"
      <<65331, 65321, 65330, 65321, 65333, 65331>>, \* full-width "SIRIUS"
      <<12289, 20170, 26085, 12398, 22825, 27671, 12399, 65311>>, \* "、今日の天気は？"
      <<12471, 12522>>,                         \* "シリ"
      <<12454, 12473>> }                        \* "ウス"

Tokens == Fillers \cup {WakeWordVariants[k] : k \in 1..Len(WakeWordVariants)}

RECURSIVE TextsOf(_)
TextsOf(n) ==
    IF n = 0 THEN {<<>>}
    ELSE LET shorter == TextsOf(n - 1)
         IN  shorter \cup {s \o t : s \in shorter, t \in Tokens}

Texts == TextsOf(MaxTokens)

\* confidences around the threshold, and the ones of the test scenarios
Confidences == {0, 50, ConfidenceThreshold - 1, ConfidenceThreshold, 75, 95, 100}


InitCheck ==
    /\ InitDetector
    /\ InitVoiceIdle
    /\ InitHistoryIdle
    /\ InitRecognizer
    /\ InitApplication
    /\ debug_mode \in BOOLEAN
    /\ cw_text \in Texts
    /\ cw_conf \in Confidences
    /\ cw_pc = "call"
    /\ cw_result = FALSE
    /\ InitSequenceIdle

\* result = detector._check_wake_word(text, confidence)
CallCheckWakeWord ==
    /\ cw_pc = "call"
    /\ cw_pc' = "returned"
    /\ cw_result' = CheckWakeWord(cw_text, cw_conf)
    /\ UNCHANGED <<debug_mode, cw_text, cw_conf>>
    /\ UNCHANGED <<appVars, seqVars, wakeVars, voiceVars, histVars, recVars>>

NextCheck == CallCheckWakeWord

SpecCheck == InitCheck /\ [][NextCheck]_vars

\* ------------------------------------------------------------------------
\* Claims about _check_wake_word
\* ------------------------------------------------------------------------

ContainsWakePhrase(text) ==
    \/ Contains(WakeWord, text)
    \/ \E k \in 1..Len(WakeWordVariants) : Contains(WakeWordVariants[k], text)
    \/ Contains(RootKatakana, text)
    \/ Contains(RootHiragana, text)

\* C9: a text that contains the wake phrase, a variant of the list or a root
\* token is accepted whenever the confidence is at or above the threshold or
\* debug mode is on.
C9_AcceptsWakePhrase ==
    (/\ cw_pc = "returned"
     /\ ContainsWakePhrase(cw_text)
     /\ (cw_conf >= ConfidenceThreshold \/ debug_mode))
        => cw_result = TRUE

\* the scenario of the spec: "シリウスくん、今日の天気は？" at confidence 75
C9_Witness ==
    /\ cw_text = WakeWord \o <<12289, 20170, 26085, 12398, 22825, 27671, 12399, 65311>>
    /\ cw_conf = 75
    /\ ~debug_mode
    /\ cw_pc = "returned"
    /\ cw_result = TRUE

\* C10: a text without a non-ASCII character, and the empty text, is rejected
\* at every confidence, in normal and in debug mode.
C10_RejectsAscii ==
    (cw_pc = "returned" /\ (cw_text = <<>> \/ \A i \in 1..Len(cw_text) : cw_text[i] <= 127))
        => cw_result = FALSE

\* the scenario of the spec: "hello there" at confidence 95, here in debug mode
C10_Witness ==
    /\ cw_text = <<104, 101, 108, 108, 111, 32, 116, 104, 101, 114, 101>>
    /\ cw_conf = 95
    /\ debug_mode
    /\ cw_pc = "returned"
    /\ cw_result = FALSE

\* every character of the text is one that str.strip() removes
OnlyWhitespace(text) == \A i \in 1..Len(text) : text[i] \in WhitespaceChars

\* C11: outside debug mode a text with a confidence below the threshold is
\* rejected, whatever it contains; in debug mode a text that is blank, has
\* ASCII characters only or contains no wake phrase is still rejected.
C11_RejectsBelowThreshold ==
    cw_pc = "returned" =>
        /\ (~debug_mode /\ cw_conf < ConfidenceThreshold) => cw_result = FALSE
        /\ (/\ debug_mode
            /\ \/ OnlyWhitespace(cw_text)
               \/ \A i \in 1..Len(cw_text) : cw_text[i] <= 127
               \/ ~ContainsWakePhrase(cw_text))
              => cw_result = FALSE

\* the wake phrase one point below the threshold, outside debug mode
C11_Witness ==
    /\ cw_text = WakeWord
    /\ cw_conf = ConfidenceThreshold - 1
    /\ ~debug_mode
    /\ cw_pc = "returned"
    /\ cw_result = FALSE

\* ------------------------------------------------------------------------
\* The detection history: the update of an accepted detection, and
\* clear_detection_history
\* ------------------------------------------------------------------------

\* texts of accepted detections
HistoryTexts == {WakeWord, RootKatakana}

\* if len(self.detection_history) > max_detection_history: pop(0)
EvictNewest(history) ==
    IF Len(history) > MaxDetectionHistory
    THEN SubSeq(history, 1, Len(history) - 1) ELSE history
EvictOldest(history) ==
    IF Len(history) > MaxDetectionHistory THEN Tail(history) ELSE history

InitHistory ==
    /\ InitDetector
    /\ InitVoiceIdle
    /\ InitHistoryIdle
    /\ InitRecognizer
    /\ InitApplication
    /\ debug_mode = FALSE
    /\ cw_text = <<>>
    /\ cw_conf = 0
    /\ cw_pc = "call"
    /\ cw_result = FALSE
    /\ InitSequenceIdle

\* _check_wake_word has accepted a text: self.detection_history.append(...)
HistoryAppend(w) ==
    /\ hw[w] = "idle"
    /\ Len(accepted) < MaxDetections
    /\ \E text \in HistoryTexts :
          LET detection_info == [text |-> text, confidence |-> 75]
          IN  /\ CheckWakeWord(text, 75)
              /\ detection_history' = Append(detection_history, detection_info)
              /\ accepted' = Append(accepted, detection_info)
    /\ hw' = [hw EXCEPT ![w] = "appended"]
    /\ UNCHANGED <<now, is_running, model_loaded, audio, stream, open_streams,
                   audio_buffer, buffer_lock, last_processed_time,
                   last_detection_time, session, stopped, ui_pc, ui_last, rw, dw,
                   frames_read, appended, callbacks>>
    /\ UNCHANGED <<appVars, seqVars, cwVars, voiceVars, recVars>>

\* the test of the length and pop(0)
HistoryEvict(w) ==
    /\ hw[w] = "appended"
    /\ detection_history' = EvictOldest(detection_history)
    /\ hw' = [hw EXCEPT ![w] = "idle"]
    /\ UNCHANGED <<now, is_running, model_loaded, audio, stream, open_streams,
                   audio_buffer, buffer_lock, last_processed_time,
                   last_detection_time, session, stopped, ui_pc, ui_last, rw, dw,
                   frames_read, appended, callbacks, accepted>>
    /\ UNCHANGED <<appVars, seqVars, cwVars, voiceVars, recVars>>

\* clear_detection_history
ClearDetectionHistory ==
    /\ detection_history # <<>>
    /\ detection_history' = <<>>
    /\ accepted' = <<>>
    /\ UNCHANGED <<now, is_running, model_loaded, audio, stream, open_streams,
                   audio_buffer, buffer_lock, last_processed_time,
                   last_detection_time, session, stopped, ui_pc, ui_last, rw, dw,
                   frames_read, appended, callbacks, hw>>
    /\ UNCHANGED <<appVars, seqVars, cwVars, voiceVars, recVars>>

NextHistory ==
    \/ \E w \in Sessions : HistoryAppend(w)
    \/ \E w \in Sessions : HistoryEvict(w)
    \/ ClearDetectionHistory

SpecHistory == InitHistory /\ [][NextHistory]_vars

\* the last k entries of a sequence
LastEntries(seq, k) == SubSeq(seq, Len(seq) - k + 1, Len(seq))

\* C12: once the updates of the accepted detections are complete,
\* detection_history has at most max_detection_history entries, and they are
\* the most recent accepted detections in the order of their acceptance.
C12_HistoryIsMostRecent ==
    (\A w \in Sessions : hw[w] = "idle")
        => /\ Len(detection_history) <= MaxDetectionHistory
           /\ detection_history =
                 LastEntries(accepted, Min(Len(accepted), MaxDetectionHistory))

\* more detections than the history holds were accepted: the oldest are evicted
C12_Witness ==
    /\ \A w \in Sessions : hw[w] = "idle"
    /\ Len(accepted) = MaxDetectionHistory + 2
    /\ Len(detection_history) = MaxDetectionHistory
    /\ detection_history[1] = accepted[3]

\* ------------------------------------------------------------------------
\* Claims about the volume floor of the detector
\* ------------------------------------------------------------------------

\* the root mean square of the samples is below the floor: the mean of the
\* squares is below the square of the floor
RmsBelow(samples, floor) ==
    \/ samples = <<>>
    \/ SumSquares(samples) < floor * floor * Len(samples)

\* C13: a window whose RMS volume is below the floor of 100 is never handed to
\* the transcriber, and the step that drops it appends nothing to the
\* detection history, calls no callback and leaves last_detection_time alone.
C13_QuietWindowDropped ==
    /\ [](\A s \in Sessions :
            dw[s].pc \in {"transcribing", "callback"}
               => ~RmsBelow(dw[s].audio_to_process, 100))
    /\ [][\A s \in Sessions :
            (/\ dw[s].pc = "trim"
             /\ dw'[s] # dw[s]
             /\ RmsBelow(dw[s].audio_to_process, 100))
               => /\ dw'[s].pc = "top"
                  /\ UNCHANGED <<detection_history, callbacks, last_detection_time>>]_vars

\* a detection worker has processed a window of a session in which the
\* microphone delivered silence only
C13_Witness ==
    /\ appended # <<>>
    /\ \A i \in 1..Len(appended) : appended[i].amp = 0
    /\ last_processed_time # 0
    /\ \E s \in Sessions : dw[s].pc = "top"
    /\ callbacks = <<>>
    /\ detection_history = <<>>

\* ------------------------------------------------------------------------
\* RealtimeRecognizer (realtime_recognition.py)
\* ------------------------------------------------------------------------

\* what stream.read returns: the bytes of a full frame, silent or voiced, or
\* fewer bytes; the samples of a frame have one amplitude, which is its RMS
ReadData ==
    {[bytes |-> AudioChunk * SampleWidth, amp |-> a] : a \in Amplitudes}
        \cup {[bytes |-> ShortReadBytes, amp |-> 0]}

RECURSIVE TotalBytes(_)
\* len(b''.join(self.frames))
TotalBytes(fs) == IF fs = <<>> THEN 0 ELSE Head(fs).bytes + TotalBytes(Tail(fs))

\* volume > self.voice_threshold
IsVoiced(data) == data.amp > VoiceThreshold

InitRec ==
    /\ InitDetector
    /\ InitVoiceIdle
    /\ InitHistoryIdle
    /\ InitRecognizer
    /\ InitApplication
    /\ debug_mode = FALSE
    /\ cw_text = <<>>
    /\ cw_conf = 0
    /\ cw_pc = "call"
    /\ cw_result = FALSE
    /\ InitSequenceIdle

\* start_recognition: returns at once when recording; else opens the stream,
\* empties frames, sets the flag and last_voice_time and starts the capture
\* worker and the silence monitor
StartRecognition ==
    /\ rec_pc = "idle"
    /\ IF is_recording
       THEN UNCHANGED <<is_recording, rec_stream, frames, last_voice_time,
                        rec_session, rrw, rsm, session_start>>
       ELSE /\ rec_session < MaxSessions
            /\ rec_session' = rec_session + 1
            /\ session_start' = rec_now
            /\ frames' = <<>>
            /\ rec_stream' = rec_session'
            /\ is_recording' = TRUE
            /\ last_voice_time' = rec_now
            /\ rrw' = [rrw EXCEPT ![rec_session'] = "loop"]
            /\ rsm' = [rsm EXCEPT ![rec_session'] = "loop"]
    /\ UNCHANGED <<rec_now, rec_pc, rec_reads, artifact, silence_calls, rec_last,
                   rrw_held>>
    /\ UNCHANGED <<appVars, seqVars, cwVars, wakeVars, voiceVars, histVars>>

\* stop_recognition up to the clearing of the flag: returns at once when not
\* recording
StopRecognition ==
    /\ rec_pc = "idle"
    /\ IF is_recording
       THEN /\ is_recording' = FALSE
            /\ rec_pc' = "closing"
       ELSE UNCHANGED <<is_recording, rec_pc>>
    /\ UNCHANGED <<rec_stream, frames, last_voice_time, rec_now, rec_session,
                   rec_reads, artifact, rrw, rsm, silence_calls, rec_last>>
    /\ UNCHANGED <<rrw_held, session_start>>
    /\ UNCHANGED <<appVars, seqVars, cwVars, wakeVars, voiceVars, histVars>>

\* stop_recognition: the stream is closed, stream and audio are set to None
StopRecognitionClose ==
    /\ rec_pc = "closing"
    /\ rec_stream' = 0
    /\ rec_pc' = "process"
    /\ UNCHANGED <<is_recording, frames, last_voice_time, rec_now, rec_session,
                   rec_reads, artifact, rrw, rsm, silence_calls, rec_last>>
    /\ UNCHANGED <<rrw_held, session_start>>
    /\ UNCHANGED <<appVars, seqVars, cwVars, wakeVars, voiceVars, histVars>>

\* _process_recording: returns when no frame was captured; else the frames
\* are written to a temporary WAV file, which is created with delete=False
ProcessRecordingWrite ==
    /\ rec_pc = "process"
    /\ IF frames = <<>>
       THEN /\ rec_pc' = "idle"
            /\ rec_last' = NoRecording
            /\ UNCHANGED artifact
       ELSE LET size == WavHeaderBytes + TotalBytes(frames)
            IN  /\ artifact' = [exists |-> TRUE, size |-> size]
                /\ rec_last' =
                      [NoRecording EXCEPT
                          !.size = size,
                          !.silent = \A i \in 1..Len(frames) : frames[i].amp = 0]
                /\ rec_pc' = "check_size"
    /\ UNCHANGED <<is_recording, rec_stream, frames, last_voice_time, rec_now,
                   rec_session, rec_reads, rrw, rsm, silence_calls>>
    /\ UNCHANGED <<rrw_held, session_start>>
    /\ UNCHANGED <<appVars, seqVars, cwVars, wakeVars, voiceVars, histVars>>

\* writing the WAV data raises after the file was created: the statements are
\* outside the try, the exception leaves _process_recording and
\* stop_recognition
ProcessRecordingWriteFails ==
    /\ rec_pc = "process"
    /\ frames # <<>>
    /\ artifact' = [exists |-> TRUE, size |-> 0]
    /\ rec_last' = NoRecording
    /\ rec_pc' = "idle"
    /\ UNCHANGED <<is_recording, rec_stream, frames, last_voice_time, rec_now,
                   rec_session, rec_reads, rrw, rsm, silence_calls>>
    /\ UNCHANGED <<rrw_held, session_start>>
    /\ UNCHANGED <<appVars, seqVars, cwVars, wakeVars, voiceVars, histVars>>

\* file_size < 1000
TooSmallNever(size) == FALSE
TooSmall(size) == size < MinArtifactBytes

\* the test of the file size: below the floor the function returns through
\* the finally clause, which unlinks the file; else the transcriber is called
ProcessRecordingCheckSize ==
    /\ rec_pc = "check_size"
    /\ IF TooSmall(artifact.size)
       THEN /\ artifact' = NoArtifact
            /\ rec_pc' = "idle"
            /\ UNCHANGED rec_last
       ELSE /\ rec_pc' = "transcribing"
            /\ rec_last' = [rec_last EXCEPT !.transcribed = TRUE]
            /\ UNCHANGED artifact
    /\ UNCHANGED <<is_recording, rec_stream, frames, last_voice_time, rec_now,
                   rec_session, rec_reads, rrw, rsm, silence_calls>>
    /\ UNCHANGED <<rrw_held, session_start>>
    /\ UNCHANGED <<appVars, seqVars, cwVars, wakeVars, voiceVars, histVars>>

\* how a transcription ends: with a text, for which transcription_callback is
\* called and returns or raises, with an empty text, or with an exception
TranscriptionOutcomes == {"text", "callback_raises", "empty", "raises"}

\* the transcriber returns or raises; exceptions are caught, and the finally
\* clause unlinks the file
ProcessRecordingTranscribed ==
    /\ rec_pc = "transcribing"
    /\ \E outcome \in TranscriptionOutcomes :
          rec_last' = [rec_last EXCEPT
                          !.called_back = outcome \in {"text", "callback_raises"}]
    /\ artifact' = NoArtifact
    /\ rec_pc' = "idle"
    /\ UNCHANGED <<is_recording, rec_stream, frames, last_voice_time, rec_now,
                   rec_session, rec_reads, rrw, rsm, silence_calls>>
    /\ UNCHANGED <<rrw_held, session_start>>
    /\ UNCHANGED <<appVars, seqVars, cwVars, wakeVars, voiceVars, histVars>>

\* one iteration of _recording_worker: the loop ends when the flag or the
\* stream is unset; else a read, which lasts the time of a frame, the data
\* are appended to frames and a voiced frame sets last_voice_time
RecognizerRead(s) ==
    /\ rrw[s] = "loop"
    /\ IF is_recording /\ rec_stream # 0
       THEN /\ rec_reads < MaxFrames
            /\ rec_reads' = rec_reads + 1
            /\ rec_now' = rec_now + FrameDurationX10
            /\ \E data \in ReadData :
                  /\ frames' = Append(frames, data)
                  /\ last_voice_time' =
                        IF IsVoiced(data) THEN rec_now' ELSE last_voice_time
            /\ UNCHANGED rrw
       ELSE /\ rrw' = [rrw EXCEPT ![s] = "done"]
            /\ UNCHANGED <<rec_reads, rec_now, frames, last_voice_time>>
    /\ UNCHANGED <<is_recording, rec_stream, rec_session, rec_pc, artifact, rsm,
                   silence_calls, rec_last>>
    /\ UNCHANGED <<rrw_held, session_start>>
    /\ UNCHANGED <<appVars, seqVars, cwVars, wakeVars, voiceVars, histVars>>

\* stream.read raises: the worker ends
RecognizerReadFails(s) ==
    /\ rrw[s] = "loop"
    /\ is_recording /\ rec_stream # 0
    /\ rrw' = [rrw EXCEPT ![s] = "done"]
    /\ UNCHANGED <<is_recording, rec_stream, frames, last_voice_time, rec_now,
                   rec_session, rec_pc, rec_reads, artifact, rsm, silence_calls,
                   rec_last>>
    /\ UNCHANGED <<rrw_held, session_start>>
    /\ UNCHANGED <<appVars, seqVars, cwVars, wakeVars, voiceVars, histVars>>

\* silence_duration >= self.silence_threshold
SilenceLongEnough(duration) == duration >= SilenceThresholdX10

\* one iteration of _silence_monitor: the loop ends when the flag is unset;
\* after a silence of the threshold silence_callback is called and the loop
\* is left; else the monitor sleeps
SilenceMonitorPoll(s) ==
    /\ rsm[s] = "loop"
    /\ IF ~is_recording
       THEN /\ rsm' = [rsm EXCEPT ![s] = "done"]
            /\ UNCHANGED silence_calls
       ELSE IF SilenceLongEnough(rec_now - last_voice_time)
            THEN /\ silence_calls' =
                       Append(silence_calls,
                              [session |-> rec_session, monitor |-> s])
                 /\ rsm' = [rsm EXCEPT ![s] = "done"]
            ELSE UNCHANGED <<rsm, silence_calls>>
    /\ UNCHANGED <<is_recording, rec_stream, frames, last_voice_time, rec_now,
                   rec_session, rec_pc, rec_reads, artifact, rrw, rec_last>>
    /\ UNCHANGED <<rrw_held, session_start>>
    /\ UNCHANGED <<appVars, seqVars, cwVars, wakeVars, voiceVars, histVars>>

NextRec ==
    \/ StartRecognition
    \/ StopRecognition
    \/ StopRecognitionClose
    \/ ProcessRecordingWrite
    \/ ProcessRecordingWriteFails
    \/ ProcessRecordingCheckSize
    \/ ProcessRecordingTranscribed
    \/ \E s \in Sessions : RecognizerRead(s)
    \/ \E s \in Sessions : RecognizerReadFails(s)
    \/ \E s \in Sessions : SilenceMonitorPoll(s)

SpecRec == InitRec /\ [][NextRec]_vars

\* ------------------------------------------------------------------------
\* RealtimeRecognizer, statement by statement where its threads share state
\* ------------------------------------------------------------------------

\* start_recognition up to `self.is_recording = True`: returns at once when
\* recording; else frames is emptied, the stream opened and the flag set
StartRecognitionFlag ==
    /\ rec_pc = "idle"
    /\ IF is_recording
       THEN UNCHANGED <<is_recording, rec_stream, frames, rec_session, rec_pc,
                        session_start>>
       ELSE /\ rec_session < MaxSessions
            /\ rec_session' = rec_session + 1
            /\ session_start' = rec_now
            /\ frames' = <<>>
            /\ rec_stream' = rec_session'
            /\ is_recording' = TRUE
            /\ rec_pc' = "starting"
    /\ UNCHANGED <<last_voice_time, rec_now, rec_reads, artifact, rrw, rsm,
                   silence_calls, rec_last, rrw_held>>
    /\ UNCHANGED <<appVars, seqVars, cwVars, wakeVars, voiceVars, histVars>>

\* start_recognition, the rest: self.last_voice_time = time.time(), then the
\* capture worker and the silence monitor are started
StartRecognitionThreads ==
    /\ rec_pc = "starting"
    /\ last_voice_time' = rec_now
    /\ rrw' = [rrw EXCEPT ![rec_session] = "loop"]
    /\ rsm' = [rsm EXCEPT ![rec_session] = "loop"]
    /\ rec_pc' = "idle"
    /\ UNCHANGED <<is_recording, rec_stream, frames, rec_now, rec_session,
                   rec_reads, artifact, silence_calls, rec_last, rrw_held,
                   session_start>>
    /\ UNCHANGED <<appVars, seqVars, cwVars, wakeVars, voiceVars, histVars>>

\* while self.is_recording and self.stream: the worker ends, or it enters
\* self.stream.read on the stream that the attribute holds now
CaptureLoopHead(s) ==
    /\ rrw[s] = "loop"
    /\ IF is_recording /\ rec_stream # 0
       THEN /\ rrw' = [rrw EXCEPT ![s] = "reading"]
            /\ rrw_held' = [rrw_held EXCEPT ![s].stream = rec_stream]
       ELSE /\ rrw' = [rrw EXCEPT ![s] = "done"]
            /\ UNCHANGED rrw_held
    /\ UNCHANGED <<is_recording, rec_stream, frames, last_voice_time, rec_now,
                   rec_session, rec_pc, rec_reads, artifact, rsm, silence_calls,
                   rec_last, session_start>>
    /\ UNCHANGED <<appVars, seqVars, cwVars, wakeVars, voiceVars, histVars>>

\* stream.read returns the data of a frame, after the time of a frame; a read
\* of a stream that was closed meanwhile raises instead
CaptureReadReturns(s) ==
    /\ rrw[s] = "reading"
    /\ rrw_held[s].stream = rec_stream
    /\ rec_reads < MaxFrames
    /\ rec_reads' = rec_reads + 1
    /\ rec_now' = rec_now + FrameDurationX10
    /\ \E data \in ReadData : rrw_held' = [rrw_held EXCEPT ![s].data = data]
    /\ rrw' = [rrw EXCEPT ![s] = "append"]
    /\ UNCHANGED <<is_recording, rec_stream, frames, last_voice_time,
                   rec_session, rec_pc, artifact, rsm, silence_calls, rec_last,
                   session_start>>
    /\ UNCHANGED <<appVars, seqVars, cwVars, wakeVars, voiceVars, histVars>>

\* stream.read raises, as it does on a closed stream: the except clause
\* prints the error when the flag is set and leaves the loop
CaptureReadRaises(s) ==
    /\ rrw[s] = "reading"
    /\ rrw' = [rrw EXCEPT ![s] = "done"]
    /\ rrw_held' = [rrw_held EXCEPT ![s] = NothingHeld]
    /\ UNCHANGED <<is_recording, rec_stream, frames, last_voice_time, rec_now,
                   rec_session, rec_pc, rec_reads, artifact, rsm, silence_calls,
                   rec_last, session_start>>
    /\ UNCHANGED <<appVars, seqVars, cwVars, wakeVars, voiceVars, histVars>>

\* self.frames.append(data), and last_voice_time = time.time() for a voiced
\* frame: frames is the list the attribute holds now
CaptureAppend(s) ==
    /\ rrw[s] = "append"
    /\ frames' = Append(frames, rrw_held[s].data)
    /\ last_voice_time' =
          IF IsVoiced(rrw_held[s].data) THEN rec_now ELSE last_voice_time
    /\ rrw' = [rrw EXCEPT ![s] = "loop"]
    /\ rrw_held' = [rrw_held EXCEPT ![s].data = NothingHeld.data]
    /\ UNCHANGED <<is_recording, rec_stream, rec_now, rec_session, rec_pc,
                   rec_reads, artifact, rsm, silence_calls, rec_last,
                   session_start>>
    /\ UNCHANGED <<appVars, seqVars, cwVars, wakeVars, voiceVars, histVars>>

NextCapture ==
    \/ StartRecognitionFlag
    \/ StartRecognitionThreads
    \/ StopRecognition
    \/ StopRecognitionClose
    \/ ProcessRecordingWrite
    \/ ProcessRecordingWriteFails
    \/ ProcessRecordingCheckSize
    \/ ProcessRecordingTranscribed
    \/ \E s \in Sessions : CaptureLoopHead(s)
    \/ \E s \in Sessions : CaptureReadReturns(s)
    \/ \E s \in Sessions : CaptureReadRaises(s)
    \/ \E s \in Sessions : CaptureAppend(s)
    \/ \E s \in Sessions : SilenceMonitorPoll(s)

SpecCapture == InitRec /\ [][NextCapture]_vars

\* ------------------------------------------------------------------------
\* Claims about RealtimeRecognizer
\* ------------------------------------------------------------------------

\* C14: a recording whose frames are all silent never reaches the
\* transcriber when the session is stopped.
C14_SilentNeverTranscribed ==
    rec_last.silent => ~rec_last.transcribed

C16_ArtifactDeleted ==
    rec_pc = "idle" => ~artifact.exists

\* C17: silence_callback is invoked at most once in a recording session.
C17_SilenceOncePerSession ==
    \A i, j \in 1..Len(silence_calls) :
        i < j => silence_calls[i].session # silence_calls[j].session

\* ------------------------------------------------------------------------
\* Claims about cancel_speech
\* ------------------------------------------------------------------------

\* C18: cancel_speech called while is_speaking is false returns False and
\* changes nothing: no process is terminated, no mouth update is issued, no
\* signal is emitted and no attribute is written.
C18_CancelWhenIdleNoEffect ==
    [][(CancelSpeech /\ ~is_speaking)
          => /\ voice_last'.result = FALSE
             /\ UNCHANGED <<is_speaking, audio_process, speech_thread, proc,
                            signals, mouth_log, sw, at, start_event, temp_file,
                            utterances>>]_vars

\* cancel_speech was called with is_speaking false while a player still ran
C18_Witness ==
    /\ voice_last.op = "cancel_speech"
    /\ ~voice_last.was_speaking
    /\ ~voice_last.result
    /\ \E u \in Utterances : proc[u] = "running"

RECURSIVE ShapeUpdates(_)
ShapeUpdates(log) ==
    IF log = <<>> THEN 0
    ELSE (IF Head(log).pattern # "none" THEN 1 ELSE 0) + ShapeUpdates(Tail(log))

NoLength == -1
\* the defaults of getattr(..., 0.1) or 0.1 and getattr(..., 0.0) or 0.0, in
\* milliseconds
DefaultLengthMs == 100
DefaultPauseMs == 0

\* phoneme_to_mouth.get(phoneme, 'a'); "none" stands for None
PhonemeToMouthShape(phoneme) ==
    IF phoneme \in {"i", "s", "z", "ch", "sh", "j"} THEN "i"
    ELSE IF phoneme \in {"u", "o", "n", "h", "b", "p", "m", "w", "f", "v", "N"}
         THEN "o"
    ELSE IF phoneme \in {"sil", "pau", "cl", "q"} THEN "none"
    ELSE "a"

\* getattr(x, name, default) or default: None and 0 give the default
LengthOr(length, default) ==
    IF length = NoLength \/ length = 0 THEN default ELSE length

\* duration /= speed_scale (exact on the lengths and scales of the inputs)
Scaled(duration, scale) == duration \div scale

\* current_time += duration
TimeStandsStill(current_time, duration) == current_time
Advance(current_time, duration) == current_time + duration

\* phoneme_timeline.append((current_time, mouth_shape, duration));
\* current_time += duration
AppendEvent(st, mouth_shape, duration) ==
    [timeline |-> Append(st.timeline, [offset |-> st.current_time,
                                       shape |-> mouth_shape,
                                       duration |-> duration]),
     current_time |-> Advance(st.current_time, duration)]

\* the body of `for mora in accent_phrase.moras`: the consonant when there is
\* one, then the vowel when there is one
AfterMora(st, mora, scale) ==
    LET with_consonant ==
            IF mora.consonant # ""
            THEN AppendEvent(st, PhonemeToMouthShape(mora.consonant),
                             Scaled(LengthOr(mora.consonant_length,
                                             DefaultLengthMs), scale))
            ELSE st
    IN  IF mora.vowel # ""
        THEN AppendEvent(with_consonant, PhonemeToMouthShape(mora.vowel),
                         Scaled(LengthOr(mora.vowel_length, DefaultLengthMs),
                                scale))
        ELSE with_consonant

RECURSIVE AfterMoras(_, _, _)
AfterMoras(st, moras, scale) ==
    IF moras = <<>> THEN st
    ELSE AfterMoras(AfterMora(st, Head(moras), scale), Tail(moras), scale)

\* the body of `for accent_phrase in audio_query.accent_phrases`: the moras,
\* then the pause when pause_mora has a positive length
AfterPhrase(st, accent_phrase, scale) ==
    LET after_moras == AfterMoras(st, accent_phrase.moras, scale)
        pause_duration ==
            IF accent_phrase.pause_mora.present
            THEN LengthOr(accent_phrase.pause_mora.vowel_length, DefaultPauseMs)
            ELSE 0
    IN  IF accent_phrase.pause_mora.present /\ pause_duration > 0
        THEN AppendEvent(after_moras, "none", Scaled(pause_duration, scale))
        ELSE after_moras

RECURSIVE AfterPhrases(_, _, _)
AfterPhrases(st, accent_phrases, scale) ==
    IF accent_phrases = <<>> THEN st
    ELSE AfterPhrases(AfterPhrase(st, Head(accent_phrases), scale),
                      Tail(accent_phrases), scale)

\* a length that is not a number (a string, say): `getattr(...) or 0.1` hands
\* it on and the division by speed_scale, or for a pause mora the comparison
\* with 0, raises TypeError
BadLength == -2

\* the loop raises on the structure
Raises(query) ==
    \E i \in 1..Len(query) :
        \/ \E j \in 1..Len(query[i].moras) :
              \/ /\ query[i].moras[j].consonant # ""
                 /\ query[i].moras[j].consonant_length = BadLength
              \/ /\ query[i].moras[j].vowel # ""
                 /\ query[i].moras[j].vowel_length = BadLength
        \/ /\ query[i].pause_mora.present
           /\ query[i].pause_mora.vowel_length = BadLength

\* try: ... return phoneme_timeline; except Exception: return []
GetMouthShapeSequence(query, scale) ==
    IF Raises(query) THEN <<>>
    ELSE AfterPhrases([timeline |-> <<>>, current_time |-> 0], query, scale).timeline

\* the prosody structures of the calls: lengths in milliseconds, absent, zero
\* or positive; a mora without consonant has no consonant length
Lengths == {NoLength, 0, 40}
Moras ==
    {m \in [consonant : {"", "k"}, consonant_length : Lengths \ {0},
            vowel : {"a"}, vowel_length : Lengths \ {NoLength}] :
        m.consonant = "" => m.consonant_length = NoLength}
NoPauseMora == [present |-> FALSE, vowel_length |-> NoLength]
PauseMoras == {[present |-> TRUE, vowel_length |-> l] : l \in Lengths}

\* the structures that have one mora or pause mora more than q
OneMore(q) ==
    {Append(q, [moras |-> <<m>>, pause_mora |-> NoPauseMora]) : m \in Moras}
    \cup
    (IF q # <<>> /\ ~q[Len(q)].pause_mora.present
     THEN {[q EXCEPT ![Len(q)].moras = Append(@, m)] : m \in Moras}
          \cup {[q EXCEPT ![Len(q)].pause_mora = p] : p \in PauseMoras}
     ELSE {})

RECURSIVE AccentPhrasesOf(_)
AccentPhrasesOf(n) ==
    IF n = 0 THEN {<<>>}
    ELSE LET smaller == AccentPhrasesOf(n - 1)
         IN  smaller \cup UNION {OneMore(q) : q \in smaller}

AudioQueries == AccentPhrasesOf(MaxMoras)
SpeedScales == {1, 2}

InitSeq ==
    /\ InitDetector
    /\ InitVoiceIdle
    /\ InitHistoryIdle
    /\ InitRecognizer
    /\ InitApplication
    /\ debug_mode = FALSE
    /\ cw_text = <<>>
    /\ cw_conf = 0
    /\ cw_pc = "call"
    /\ cw_result = FALSE
    /\ audio_query \in AudioQueries
    /\ speed_scale \in SpeedScales
    /\ seq_pc = "call"
    /\ phoneme_timeline = <<>>

\* mouth_sequence = self._get_mouth_shape_sequence(audio_query, speed_scale)
CallGetMouthShapeSequence ==
    /\ seq_pc = "call"
    /\ seq_pc' = "returned"
    /\ phoneme_timeline' = GetMouthShapeSequence(audio_query, speed_scale)
    /\ UNCHANGED <<audio_query, speed_scale>>
    /\ UNCHANGED <<appVars, cwVars, wakeVars, voiceVars, histVars, recVars>>

NextSeq == CallGetMouthShapeSequence

SpecSeq == InitSeq /\ [][NextSeq]_vars

\* structures with a mora whose vowel length is not a number
BadMoras == {[m EXCEPT !.vowel_length = BadLength] : m \in Moras}
MalformedQueries ==
    {Append(q, [moras |-> <<b>>, pause_mora |-> NoPauseMora]) :
        q \in AccentPhrasesOf(MaxMoras - 1), b \in BadMoras}

\* the calls with well-formed and with malformed structures
InitSeqAny ==
    /\ InitDetector
    /\ InitVoiceIdle
    /\ InitHistoryIdle
    /\ InitRecognizer
    /\ InitApplication
    /\ debug_mode = FALSE
    /\ cw_text = <<>>
    /\ cw_conf = 0
    /\ cw_pc = "call"
    /\ cw_result = FALSE
    /\ audio_query \in AudioQueries \cup MalformedQueries
    /\ speed_scale \in SpeedScales
    /\ seq_pc = "call"
    /\ phoneme_timeline = <<>>

SpecSeqAny == InitSeqAny /\ [][NextSeq]_vars

\* ------------------------------------------------------------------------
\* The threads of an utterance under fair scheduling
\* ------------------------------------------------------------------------

\* the steps of the thread of _speak_async
SpeechWorkerStep(u) ==
    \/ SpeechSynthesis(u)
    \/ SpeechAudioStarted(u)
    \/ SpeechWalk(u)
    \/ SpeechWalkEnds(u)
    \/ SpeechStoreProcess(u)
    \/ SpeechFinallyFlag(u)
    \/ SpeechFinallyRest(u)

\* the steps of the thread of _play_audio_with_process
PlaybackStep(u) ==
    \/ AudioBegin(u)
    \/ AudioWriteFails(u)
    \/ AudioEmitStarted(u)
    \/ AudioPopen(u)
    \/ AudioPopenRaises(u)
    \/ AudioWaitReturns(u)

\* the calls of the user interface, the threads and the requests
NextLive ==
    \/ CancelSpeech
    \/ NextWalk

\* every thread that can take a step takes one eventually, the player comes
\* to the end of its file, and every request ends
SpecLive ==
    /\ InitVoice
    /\ [][NextLive]_vars
    /\ \A u \in Utterances : WF_vars(SpeechWorkerStep(u))
    /\ \A u \in Utterances : WF_vars(PlaybackStep(u))
    /\ \A u \in Utterances : WF_vars(ProcessExits(u))

\* ------------------------------------------------------------------------
\* Claims about the walk of the mouth sequence and the remote display
\* ------------------------------------------------------------------------

\* the walk of the utterance is over: the worker has left
\* _perform_lipsync_with_cancel after the start event
WalkEnded(u) ==
    /\ start_event[u]
    /\ sw[u].pc \in {"store_process", "finally", "finally_rest", "done"}

\* the last update of the utterance is the only one with pattern None
ClearIssuedLast(u) ==
    /\ Len(mouth_log[u]) >= 1
    /\ mouth_log[u][Len(mouth_log[u])].pattern = "none"
    /\ \A j \in 1..(Len(mouth_log[u]) - 1) : mouth_log[u][j].pattern # "none"

C22_StartedOnceBeforeCompleted ==
    \A u \in Utterances :
        LET started == {k \in 1..Len(signals[u]) : signals[u][k] = "speech_started"}
            completed == {k \in 1..Len(signals[u]) : signals[u][k] = "speech_completed"}
        IN  /\ Cardinality(started) <= 1
            /\ started # {} =>
                  start_event[u] /\ sw[u].pc \notin {"unborn", "synthesis"}
            /\ \A k \in started : \A c \in completed : k < c

\* C23: every utterance that speak_response has started (is_speaking set,
\* the worker thread running) comes to the end of its worker, where
\* is_speaking has been cleared and speech_completed emitted
C23_SpeakingEventuallyCleared ==
    \A u \in Utterances :
        (sw[u].pc = "synthesis")
            ~> (sw[u].pc = "done" /\ signals[u] # <<>>
                /\ signals[u][Len(signals[u])] = "speech_completed")

\* number of events of a mouth sequence that have a shape
RECURSIVE ShapeEvents(_)
ShapeEvents(q) ==
    IF q = <<>> THEN 0
    ELSE (IF Head(q) # "none" THEN 1 ELSE 0) + ShapeEvents(Tail(q))

RECURSIVE DurationsSum(_)
DurationsSum(timeline) ==
    IF timeline = <<>> THEN 0
    ELSE Head(timeline).duration + DurationsSum(Tail(timeline))

\* C25: the offsets of the events that _get_mouth_shape_sequence returns for
\* a structure with non-negative lengths and a positive speed scale never
\* decrease, the first is 0, and each is the sum of the durations of the
\* events before it
C25_OffsetsAccumulate ==
    seq_pc = "returned" =>
        \A k \in 1..Len(phoneme_timeline) :
            /\ k = 1 => phoneme_timeline[k].offset = 0
            /\ k > 1 => phoneme_timeline[k - 1].offset <= phoneme_timeline[k].offset
            /\ phoneme_timeline[k].offset =
                  DurationsSum(SubSeq(phoneme_timeline, 1, k - 1))

\* the call has returned a consonant and a vowel, a pause and a further
\* vowel, the last one at a positive offset
C25_Witness ==
    /\ seq_pc = "returned"
    /\ Len(phoneme_timeline) = 4
    /\ phoneme_timeline[3].shape = "none"
    /\ phoneme_timeline[4].offset > phoneme_timeline[3].offset
    /\ phoneme_timeline[3].offset > phoneme_timeline[2].offset

\* a length of the structure as it is given: nothing when None or missing
GivenLength(length) == IF length = NoLength THEN 0 ELSE length

RECURSIVE MorasLength(_)
MorasLength(moras) ==
    IF moras = <<>> THEN 0
    ELSE GivenLength(Head(moras).consonant_length)
         + GivenLength(Head(moras).vowel_length) + MorasLength(Tail(moras))

\* total of the consonant, vowel and pause lengths of a structure
RECURSIVE TotalLength(_)
TotalLength(accent_phrases) ==
    IF accent_phrases = <<>> THEN 0
    ELSE MorasLength(Head(accent_phrases).moras)
         + GivenLength(Head(accent_phrases).pause_mora.vowel_length)
         + TotalLength(Tail(accent_phrases))

\* C26: the durations of the events returned add up to the total of the
\* consonant, vowel and pause lengths of the structure divided by the speed
\* scale, also when lengths are zero or absent; and at twice the speed scale
\* every event has half the duration, and so has the total
C26_DurationsAddUp ==
    seq_pc = "returned" =>
        /\ DurationsSum(phoneme_timeline) * speed_scale = TotalLength(audio_query)
        /\ LET doubled == GetMouthShapeSequence(audio_query, 2 * speed_scale)
           IN  /\ Len(doubled) = Len(phoneme_timeline)
               /\ \A k \in 1..Len(doubled) :
                     2 * doubled[k].duration = phoneme_timeline[k].duration
               /\ 2 * DurationsSum(doubled) = DurationsSum(phoneme_timeline)

\* ------------------------------------------------------------------------
\* Claims about the sessions of the detector and their workers
\* ------------------------------------------------------------------------

\* C27: the workers of a session end with it, also when the next session is
\* started at once: no capture or detection worker of an earlier session
\* passes the test of its loop and goes into a further iteration while a
\* later session exists
C27_WorkersEndWithSession ==
    [][\A s \in Sessions :
          s < session =>
              /\ rw[s].pc = "top" => rw'[s].pc # "lock"
              /\ dw[s].pc = "top" => dw'[s].pc # "lock"]_vars

\* C28: the sample buffer is empty at the start of every detection session:
\* a call of start_detection that starts a session leaves audio_buffer empty
C28_BufferEmptyAtStart ==
    [][session' = session + 1 => audio_buffer' = <<>>]_vars

\* C29: when the capture worker of the running session has ended although
\* stop_detection was not called for the session, which only a failed read
\* brings about, the session is torn down: is_running is false and the
\* stream is released
C29_ReadFailureTearsDown ==
    (session >= 1 /\ rw[session].pc = "done" /\ session \notin stopped
        /\ ui_pc = "idle")
        => (~is_running /\ stream = 0)

\* C30: a cycle of a detection worker that leaves the transcription without
\* a callback and without setting last_processed_time, as the cycle does in
\* which the transcriber raises, takes the worker back to the head of its
\* loop and changes neither is_running nor the callbacks nor the history
C30_TranscriberErrorSurvived ==
    [][\A s \in Sessions :
          ( /\ dw[s].pc = "transcribing"
            /\ dw'[s].pc \notin {"transcribing", "callback"}
            /\ last_processed_time' = last_processed_time )
          => /\ dw'[s].pc = "top"
             /\ is_running' = is_running
             /\ callbacks' = callbacks
             /\ detection_history' = detection_history]_vars

\* the only detection worker is back at the head of its loop in a running
\* session after a window was cut from the buffer, and last_processed_time
\* was never set: the transcriber has raised on that window
C30_Witness ==
    /\ session = 1
    /\ is_running
    /\ dw[1].pc = "top"
    /\ Len(appended) > Len(audio_buffer)
    /\ last_processed_time = 0
    /\ callbacks = <<>>
    /\ detection_history = <<>>

\* C40: the detection worker never sleeps while it holds buffer_lock: a
\* worker that waits out a polling interval has released the lock
C40_NeverSleepsLocked ==
    \A s \in Sessions :
        dw[s].pc = "sleep_locked" => buffer_lock # <<"dw", s>>

\* ------------------------------------------------------------------------
\* Further claims about VoiceController
\* ------------------------------------------------------------------------

\* C37: when the playback thread of an utterance has ended, the temporary
\* file it wrote is deleted, on every path to its end
C37_TempFileDeleted ==
    \A u \in Utterances : at[u] = "done" => ~temp_file[u]

Completions(u) ==
    Cardinality({k \in 1..Len(signals[u]) : signals[u][k] = "speech_completed"})

\* C38: speech_completed is emitted exactly once for every utterance that
\* speak_response has started: never twice, and once in the end, whether the
\* utterance ends by itself or cancel_speech is called during it
C38_CompletedExactlyOnce ==
    \A u \in Utterances :
        /\ [](Completions(u) <= 1)
        /\ (sw[u].pc = "synthesis") ~> (Completions(u) = 1)

\* the speech worker of utterance u runs and has not reached its finally clause
WorkerLive(u) ==
    sw[u].pc \in {"synthesis", "wait_start", "walk", "after_walk", "store_process"}

\* C39: is_speaking is true as long as the worker of an utterance is live,
\* and no step of the finally clause of an earlier worker changes
\* is_speaking or audio_process while the worker of a later utterance is live
C39_CleanupSparesLaterUtterance ==
    [][\A u \in Utterances :
          /\ WorkerLive(u)' => is_speaking'
          /\ (/\ sw[u].pc \in {"finally", "finally_rest"}
              /\ sw'[u].pc # sw[u].pc
              /\ \E v \in Utterances : v > u /\ WorkerLive(v))
             => /\ is_speaking' = is_speaking
                /\ audio_process' = audio_process]_vars

\* --- Further claims about WakeWordDetector ---
\* C31: an accepted detection performs its three steps in order: the step
\* that appends the history entry invokes the callback once, with the text
\* and the confidence of that entry, and the step in which the callback ends,
\* by return or by exception, sets last_detection_time to the current time
C31_AcceptanceStepsComplete ==
    [][\A s \in Sessions :
          /\ (dw[s].pc # "callback" /\ dw'[s].pc = "callback") =>
                /\ Len(callbacks') = Len(callbacks) + 1
                /\ detection_history' # <<>>
                /\ LET entry == detection_history'[Len(detection_history')]
                       call == callbacks'[Len(callbacks')]
                   IN  entry.text = call.text /\ entry.confidence = call.confidence
          /\ (dw[s].pc = "callback" /\ dw'[s].pc # "callback") =>
                last_detection_time' = now]_vars

\* --- Further claims about the mouth shape sequence ---
\* C36: when the extraction fails on a malformed structure the call still
\* returns a sequence to walk, one event for each character of the text of
\* the utterance, which has at least one character: the sequence returned is
\* not empty
C36_FallbackOnFailure ==
    (seq_pc = "returned" /\ Raises(audio_query)) => phoneme_timeline # <<>>

\* --- Further claims about RealtimeRecognizer ---
\* C33: data that a capture worker has read from the stream of a session
\* that was stopped since never gets into the frames of a later session, of
\* which the artifact of that session is made
C33_LateFrameDropped ==
    [][\A s \in Sessions :
          (/\ rrw[s] = "append"
           /\ rrw'[s] = "loop"
           /\ rrw_held[s].stream < rec_session)
          => frames' = frames]_vars

\* C34: silence_callback is invoked only when silence_threshold (2.0 s) has
\* passed since the start of the current session and since last_voice_time,
\* the time of the last voiced frame
C34_SilenceOnlyAfterThreshold ==
    [][Len(silence_calls') > Len(silence_calls) =>
          /\ rec_now - session_start >= SilenceThresholdX10
          /\ rec_now - last_voice_time >= SilenceThresholdX10]_vars

\* ------------------------------------------------------------------------
\* The application (ui.py): the handlers of MainWindow on the main thread and
\* the signals the components queue for it.  Of each component the session
\* flag is kept here; its threads are the subject of the sections above.
\* ------------------------------------------------------------------------

detectorRest ==
    <<now, model_loaded, audio, stream, open_streams, audio_buffer,
      buffer_lock, last_processed_time, last_detection_time, detection_history,
      session, stopped, ui_pc, ui_last, rw, dw, frames_read, appended, callbacks>>
speechRest ==
    <<audio_process, speech_thread, audio_command, synthesizer_ready,
      utterances, sw, at, start_event, proc, temp_file, signals, mouth_log,
      voice_last, remote_pattern, delivered, failed>>
recorderRest ==
    <<rec_stream, frames, last_voice_time, rec_now, rec_session, rec_pc,
      rec_reads, artifact, rrw, rsm, silence_calls, rec_last, rrw_held,
      session_start>>
otherVars == <<cwVars, histVars, seqVars, detectorRest, speechRest, recorderRest>>

\* a signal emitted from a worker thread is queued for the main thread
Emit(signal) ==
    /\ Len(ui_events) < MaxPending
    /\ ui_events' = Append(ui_events, signal)

\* the main thread takes the next signal from its queue
Take(signal) ==
    /\ ui_events # <<>>
    /\ Head(ui_events) = signal

\* VoiceController.start_recognition: while is_speaking a _delayed_start
\* thread is started and the call returns; else recognizer.start_recognition()
\* is called unless is_recognizing, and sets is_recording
VoiceStartRecognition ==
    IF is_speaking
    THEN /\ delayed_starts < MaxPending
         /\ delayed_starts' = delayed_starts + 1
         /\ UNCHANGED <<is_recording, is_recognizing>>
    ELSE /\ is_recording' = (is_recording \/ ~is_recognizing)
         /\ is_recognizing' = TRUE
         /\ UNCHANGED delayed_starts

\* VoiceController.stop_recognition: when is_recognizing,
\* recognizer.stop_recognition() clears is_recording and is_recognizing is
\* cleared
VoiceStopRecognition ==
    IF is_recognizing
    THEN is_recording' = FALSE /\ is_recognizing' = FALSE
    ELSE UNCHANGED <<is_recording, is_recognizing>>

\* _on_wake_word_button_clicked, WakeWordController.toggle_detection:
\* stop_detection or start_detection by is_detecting
AppToggleDetection ==
    /\ is_running' = ~is_detecting
    /\ is_detecting' = ~is_detecting
    /\ UNCHANGED <<is_speaking, is_recording, is_recognizing, ui_events,
                   delayed_starts, otherVars>>

\* the detection worker accepts a detection: WakeWordController's callback
\* emits wake_word_detected
AppDetectionAccepted ==
    /\ is_running
    /\ Emit("wake_word_detected")
    /\ UNCHANGED <<is_running, is_speaking, is_recording, is_detecting,
                   is_recognizing, delayed_starts, otherVars>>

\* MainWindow._on_wake_word_detected: the message is shown and
\* speak_response called, which sets is_speaking unless it is set
AppOnWakeWordDetected ==
    /\ Take("wake_word_detected")
    /\ ui_events' = Tail(ui_events)
    /\ is_speaking' = TRUE
    /\ UNCHANGED <<is_running, is_recording, is_detecting, is_recognizing,
                   delayed_starts, otherVars>>

\* the finally clause of _speak_async: is_speaking is cleared and
\* speech_completed emitted
AppSpeechWorkerEnds ==
    /\ is_speaking
    /\ is_speaking' = FALSE
    /\ Emit("speech_completed")
    /\ UNCHANGED <<is_running, is_recording, is_detecting, is_recognizing,
                   delayed_starts, otherVars>>

\* MainWindow._on_speech_completed: recognition is started unless
\* is_recognizing
AppOnSpeechCompleted ==
    /\ Take("speech_completed")
    /\ ui_events' = Tail(ui_events)
    /\ IF ~is_recognizing
       THEN VoiceStartRecognition
       ELSE UNCHANGED <<is_recording, is_recognizing, delayed_starts>>
    /\ UNCHANGED <<is_running, is_speaking, is_detecting, otherVars>>

\* _delayed_start: when is_speaking is clear the recognizer is started unless
\* is_recognizing
AppDelayedStart ==
    /\ delayed_starts > 0
    /\ ~is_speaking
    /\ delayed_starts' = delayed_starts - 1
    /\ is_recording' = (is_recording \/ ~is_recognizing)
    /\ is_recognizing' = TRUE
    /\ UNCHANGED <<is_running, is_speaking, is_detecting, ui_events, otherVars>>

\* MainWindow._on_manual_audio_button_clicked: stop_recognition when
\* is_recognizing, else start_recognition
AppManualAudioButton ==
    /\ IF is_recognizing
       THEN VoiceStopRecognition /\ UNCHANGED delayed_starts
       ELSE VoiceStartRecognition
    /\ UNCHANGED <<is_running, is_speaking, is_detecting, ui_events, otherVars>>

\* the silence monitor of the recorder fires: VoiceController._on_silence
\* emits silence_detected
AppSilenceFound ==
    /\ is_recording
    /\ Emit("silence_detected")
    /\ UNCHANGED <<is_running, is_speaking, is_recording, is_detecting,
                   is_recognizing, delayed_starts, otherVars>>

\* MainWindow._on_silence_detected: stop_recognition; the transcription, when
\* there is one, goes to chat_with_llm, whose thread emits
\* llm_response_received later
AppOnSilenceDetected ==
    /\ Take("silence_detected")
    /\ VoiceStopRecognition
    /\ \/ ui_events' = Tail(ui_events)
       \/ /\ Len(Tail(ui_events)) < MaxPending
          /\ ui_events' = Append(Tail(ui_events), "llm_response_received")
    /\ UNCHANGED <<is_running, is_speaking, is_detecting, delayed_starts,
                   otherVars>>

\* MainWindow._on_llm_response_received: the response is shown and spoken
AppOnLlmResponseReceived ==
    /\ Take("llm_response_received")
    /\ ui_events' = Tail(ui_events)
    /\ is_speaking' = TRUE
    /\ UNCHANGED <<is_running, is_recording, is_detecting, is_recognizing,
                   delayed_starts, otherVars>>

InitApp ==
    /\ InitDetector
    /\ InitVoiceIdle
    /\ InitHistoryIdle
    /\ InitRecognizer
    /\ InitApplication
    /\ debug_mode = FALSE
    /\ cw_text = <<>>
    /\ cw_conf = 0
    /\ cw_pc = "call"
    /\ cw_result = FALSE
    /\ InitSequenceIdle

NextApp ==
    \/ AppToggleDetection
    \/ AppDetectionAccepted
    \/ AppOnWakeWordDetected
    \/ AppSpeechWorkerEnds
    \/ AppOnSpeechCompleted
    \/ AppDelayedStart
    \/ AppManualAudioButton
    \/ AppSilenceFound
    \/ AppOnSilenceDetected
    \/ AppOnLlmResponseReceived

SpecApp == InitApp /\ [][NextApp]_vars

\* C32: the wake detector and the recorder never hold the audio input at the
\* same time: in no state of the application are is_running of the detector
\* and is_recording of the recorder both true
C32_OneHolderOfAudioInput ==
    ~(is_running /\ is_recording)

====
